---------------------------- MODULE Spec2Model ----------------------------
(***************************************************************************)
(* A model of the ExplorAstur event scraper: the shared date logic         *)
(* (src/utils.py), the event filter and sorter (src/processor.py), the     *)
(* scraper runner (src/main.py) and the HTTP retry and pagination loops of *)
(* the scraper base class (src/scrapers/base.py).                          *)
(*                                                                         *)
(* Strings.  A Python string is modelled as the sequence of its tokens.    *)
(* The string is its tokens joined by one space, except around the token   *)
(* Hy (a hyphen written tight, "10-15"), which has no space on either      *)
(* side (LP and RP are parentheses, tight on their inner side).  A token   *)
(* is a decimal number, Num(n), or a word W(s) spelled exactly s.  The     *)
(* regular expressions of the source are translated to matchers over       *)
(* token sequences; what each may assume of the words is stated with       *)
(* the vocabulary below.                                                   *)
(***************************************************************************)
EXTENDS Integers, Sequences, FiniteSets, TLC

VARIABLES
    now,            \* datetime.datetime.now(): [month |-> 0..11, day |-> 1..31]
    date_pattern,   \* the argument of the last DateProcessor call
    current_date,   \* the day-of-month argument of the last is_future_event call
    date_result,    \* what the last DateProcessor call returned
    events,         \* the list passed to EventProcessor.process_events
    processed,      \* the outcome of process_events: a returned list or an exception
    config,         \* the scraper's configuration: max_retries, retry_delay, max_pages
    fetch,          \* the call of fetch_page_with_retry in progress
    pag,            \* the call of scrape() in progress, with its pagination loop
    run,            \* the call of run_scrapers in progress
    mainp,          \* the run of the command main() in progress
    urlp,           \* the call of URLEventProcessor.process_urls in progress
    llmc,           \* the last call of an LLM entry point, and what it gave
    titlep,         \* the last call of clean_title, and what it gave
    locp,           \* the last call of a clean_location, and what it gave
    telp,           \* TelecableScraper: the page scraped and where the run is
    logp,           \* the logger of setup_logging and the records logged with it
    regp,           \* SCRAPER_REGISTRY and the last call of register_scraper
    outp,           \* the output file of process_and_save_events
    turp            \* TurismoAsturiasScraper: the dates of the card scraped and where the run is

dateVars == <<date_pattern, current_date, date_result>>
procVars == <<events, processed>>
netVars  == <<config, fetch, pag>>
llmVars  == <<urlp, llmc>>
textVars == <<titlep, locp>>
otherVars == <<telp, logp, regp, outp, turp>>
laterVars == <<mainp, llmVars, textVars, otherVars>>
vars     == <<now, dateVars, procVars, netVars, run, laterVars>>

\* src/scrapers/config.py:18-41
GLOBAL_SETTINGS == [timeout |-> 30, max_retries |-> 3, retry_delay |-> 2, max_pages |-> 3]

\* no call in progress
NotProcessed == [state |-> "none", list |-> <<>>]
NoResponse   == [kind |-> "none", status |-> 0, text |-> [empty |-> TRUE, n |-> 0, next |-> "none"]]
NoFetch      == [pc |-> "idle", url |-> "", attempt |-> 0, requests |-> 0, last |-> NoResponse,
                 result |-> [ty |-> "pending", text |-> NoResponse.text], slept |-> <<>>]
NoScrape     == [pc |-> "idle", scraper |-> "", current_page |-> 0, current_url |-> "",
                 all_events |-> <<>>, pages |-> <<>>, fetches |-> 0, failed |-> 0,
                 result |-> <<>>]
NoRun        == [pc |-> "idle", scrapers |-> <<>>, i |-> 0, all_events |-> <<>>, ran |-> <<>>]

ProcIdle == events = <<>> /\ processed = NotProcessed
NetIdle  == config = GLOBAL_SETTINGS /\ fetch = NoFetch /\ pag = NoScrape
RunIdle  == run = NoRun

NoMain == [pc |-> "idle", scraper_ids |-> <<>>, exit |-> -1, caught |-> FALSE, saved |-> -1]
NoUrls == [pc |-> "idle", urls |-> <<>>, replies |-> <<>>, results |-> <<>>,
           clock |-> 0, started_at |-> 0, created |-> <<>>]
NoCall == [fn |-> "none", fields |-> {}, html |-> "", reply |-> <<>>, posts |-> <<>>,
           state |-> "none", list |-> <<>>, error |-> ""]
NoTitle == [fn |-> "none", title |-> <<>>, date_pattern |-> <<>>, fix_capitalization |-> FALSE,
            once |-> <<>>, twice |-> <<>>]
NoPage == [pc |-> "idle", page |-> [html |-> "none", bold |-> <<>>, rest |-> <<>>]]
NoLocation == [fn |-> "none", location |-> <<>>, result |-> <<>>]
NoLogger == [pc |-> "idle", debug |-> FALSE, verbose |-> FALSE, log |-> <<>>]
\* src/scrapers/factory.py:19-44
SCRAPER_REGISTRY ==
    [id \in {"biodevas", "telecable", "aviles", "visit_oviedo", "turismo_asturias",
             "oviedo_announcements"} |->
        CASE id = "biodevas" ->
               [class_name |-> "BiodevasScraper", module_path |-> "scrapers.biodevas"]
          [] id = "telecable" ->
               [class_name |-> "TelecableScraper", module_path |-> "scrapers.telecable"]
          [] id = "aviles" ->
               [class_name |-> "AvilesEventsScraper", module_path |-> "scrapers.aviles"]
          [] id = "visit_oviedo" ->
               [class_name |-> "VisitOviedoScraper", module_path |-> "scrapers.visit_oviedo"]
          [] id = "turismo_asturias" ->
               [class_name |-> "TurismoAsturiasScraper",
                module_path |-> "scrapers.turismo_asturias"]
          [] OTHER ->
               [class_name |-> "OviedoAnnouncementsScraper",
                module_path |-> "scrapers.oviedo_announcements"]]
NoRegistration == [scraper_id |-> "", class_name |-> "", module_path |-> "", outcome |-> "",
                   before |-> SCRAPER_REGISTRY, result |-> "none"]
NoRegistry == [registry |-> SCRAPER_REGISTRY, calls |-> 0, last |-> NoRegistration]
AbsentFile == [exists |-> FALSE, by |-> "nobody", markdown |-> <<>>]
NoSave == [file |-> AbsentFile, call |-> "none"]
NoCard == [pc |-> "idle", start_date |-> <<>>, end_date |-> <<>>, time_info |-> <<>>]
LaterIdle ==
    /\ mainp = NoMain /\ urlp = NoUrls /\ llmc = NoCall
    /\ titlep = NoTitle /\ locp = NoLocation
    /\ telp = NoPage /\ logp = NoLogger /\ regp = NoRegistry /\ outp = NoSave /\ turp = NoCard

-----------------------------------------------------------------------------
(* Tokens *)

Num(n) == [k |-> "num", n |-> n, s |-> ""]
\* a two-digit number written with a leading zero, "05"
Num0(n) == [k |-> "num", n |-> n, s |-> "0"]
W(s)   == [k |-> "w", n |-> 0, s |-> s]
Hy     == [k |-> "hy", n |-> 0, s |-> "-"]
\* "(" written tight before the next token and ")" tight after the last one
LP     == [k |-> "lp", n |-> 0, s |-> "("]
RP     == [k |-> "rp", n |-> 0, s |-> ")"]

IsNum(tok) == tok.k = "num"
IsWord(tok, s) == tok.k = "w" /\ tok.s = s

\* src/utils.py:16 SPANISH_MONTHS_LOWER, indexed from 1 here (Python index + 1)
SPANISH_MONTHS_LOWER ==
    << "enero", "febrero", "marzo", "abril", "mayo", "junio",
       "julio", "agosto", "septiembre", "octubre", "noviembre", "diciembre" >>

\* src/utils.py:49
MONTH_LONG_PATTERNS == << <<"todo", "el", "mes">>, <<"durante", "todo", "el", "mes">> >>

(***************************************************************************)
(* str.lower() on the words of the vocabulary.  Every word the model uses  *)
(* that holds an upper-case letter is listed; all others are lower-case    *)
(* already.                                                                *)
(***************************************************************************)
LowerWord(s) ==
    CASE s = "Mayo" -> "mayo"
      [] s = "MAYO" -> "mayo"
      [] s = "Junio" -> "junio"
      [] s = "Abril" -> "abril"
      [] s = "DE" -> "de"
      [] s = "Del" -> "del"
      [] s = "Todo" -> "todo"
      [] s = "TODO" -> "todo"
      [] s = "EL" -> "el"
      [] s = "MES" -> "mes"
      [] s = "Durante" -> "durante"
      [] s = "DURANTE" -> "durante"
      [] s = "Diciembre" -> "diciembre"
      [] s = "Desde" -> "desde"
      [] s = "Fecha:" -> "fecha:"
      [] s = "AL" -> "al"
      [] s = "Agenda" -> "agenda"
      [] s = "AGENDA" -> "agenda"
      [] s = "aGeNdA" -> "agenda"
      [] s = "Agendas" -> "agendas"
      [] s = "Concierto" -> "concierto"
      [] s = "Teatro" -> "teatro"
      [] s = "Jovellanos" -> "jovellanos"
      [] s = "Planes" -> "planes"
      [] s = "Asturias" -> "asturias"
      [] s = "Vamos" -> "vamos"
      [] s = "Festival" -> "festival"
      [] s = "Campoamor" -> "campoamor"
      [] s = "Centro" -> "centro"
      [] s = "Social" -> "social"
      [] s = "None" -> "none"
      [] s = "Pabellón" -> "pabellón"
      [] s = "Factoría" -> "factoría"
      [] s = "Auditorio" -> "auditorio"
      [] s = "Sala" -> "sala"
      [] s = "Plaza" -> "plaza"
      [] s = "Recinto" -> "recinto"
      [] s = "Museo" -> "museo"
      [] s = "Cultural" -> "cultural"
      [] s = "Oviedo" -> "oviedo"
      [] s = "Avilés" -> "avilés"
      [] s = "En" -> "en"
      [] s = "Gijón" -> "gijón"
      [] s = "Laboral" -> "laboral"
      [] s = "Lugar:" -> "lugar:"
      [] s = "Música" -> "música"
      [] s = "Visita" -> "visita"
      [] s = "CONCIERTO" -> "concierto"
      [] s = "JAZZ" -> "jazz"
      [] s = "Hasta" -> "hasta"
      [] s = "Durante" -> "durante"
      [] s = "Ver" -> "ver"
      [] OTHER -> s

Lower(str) == [i \in 1..Len(str) |->
                 IF str[i].k = "w" THEN W(LowerWord(str[i].s)) ELSE str[i]]

\* [a-zA-Z] matches the first character of the token: every word of the
\* vocabulary except the signs (no word of it starts with an accented letter).
StartsAsciiLetter(tok) ==
    tok.k = "w" /\ tok.s \notin {"-", "", ":", ",", "/", "¿quieres"}

\* \d matches the first character of the token
StartsDigit(tok) == tok.k = "num"

\* whitespace separates tokens i and i+1 of str
Spaced(str, i) == str[i].k \notin {"hy", "lp"} /\ str[i + 1].k \notin {"hy", "rp"}

\* the lookahead (?=\s+de\s+[a-zA-Z]+) right after token i
DeMonthAhead(str, i) ==
    /\ i + 2 <= Len(str)
    /\ Spaced(str, i) /\ Spaced(str, i + 1)
    /\ IsWord(str[i + 1], "de")
    /\ StartsAsciiLetter(str[i + 2])

\* `words` (a sequence of lower-case words) occurs in str from token i on
PhraseAt(str, i, words) ==
    /\ i + Len(words) - 1 <= Len(str)
    /\ \A j \in 1..Len(words) : IsWord(str[i + j - 1], words[j])
    /\ \A j \in 1..(Len(words) - 1) : Spaced(str, i + j - 1)

\* any(pattern in s.lower() for pattern in MONTH_LONG_PATTERNS)
HasMonthLong(str) ==
    \E p \in 1..Len(MONTH_LONG_PATTERNS) : \E i \in 1..Len(str) :
        PhraseAt(Lower(str), i, MONTH_LONG_PATTERNS[p])

\* range(a, b + 1)
PyRange(a, b) == a..b

SetMin(S) == CHOOSE x \in S : \A y \in S : x <= y

-----------------------------------------------------------------------------
(* DateProcessor, src/utils.py *)

\* re.findall(r'(\d+)(?=\s+de\s+[a-zA-Z]+)', s): the numbers followed by
\* " de <letters>"
SingleDays(str) ==
    { str[i].n : i \in { j \in 1..Len(str) : IsNum(str[j]) /\ DeMonthAhead(str, j) } }

\* re.findall(r'(\d+)-(\d+)(?=\s+de\s+[a-zA-Z]+)', s), each expanded by range()
DayRanges(str) ==
    UNION { PyRange(str[i].n, str[i + 2].n) :
              i \in { j \in 1..Len(str) :
                        /\ j + 2 <= Len(str)
                        /\ IsNum(str[j]) /\ str[j + 1] = Hy /\ IsNum(str[j + 2])
                        /\ DeMonthAhead(str, j + 2) } }

\* re.findall(r'(\d+)\s+a\s+(\d+)(?=\s+de\s+[a-zA-Z]+)', s), each expanded
ARanges(str) ==
    UNION { PyRange(str[i].n, str[i + 2].n) :
              i \in { j \in 1..Len(str) :
                        /\ j + 2 <= Len(str)
                        /\ IsNum(str[j]) /\ IsWord(str[j + 1], "a") /\ IsNum(str[j + 2])
                        /\ DeMonthAhead(str, j + 2) } }

\* re.findall(r'(\d+)(?=\s+y\s+\d+)', s)
YDays(str) ==
    { str[i].n : i \in { j \in 1..Len(str) :
                            /\ j + 2 <= Len(str)
                            /\ IsNum(str[j]) /\ IsWord(str[j + 1], "y")
                            /\ StartsDigit(str[j + 2]) } }

\* re.search(r'del\s+(\d+)\s+al\s+(\d+)', s): the first match only, and
\* case-sensitive ("Del" does not match)
DelAlAt(str, i) ==
    /\ i + 3 <= Len(str)
    /\ IsWord(str[i], "del") /\ IsNum(str[i + 1])
    /\ IsWord(str[i + 2], "al") /\ StartsDigit(str[i + 3])

DelAlDays(str) ==
    LET hits == { i \in 1..Len(str) : DelAlAt(str, i) }
    IN  IF hits = {} THEN {}
        ELSE LET i == SetMin(hits) IN PyRange(str[i + 1].n, str[i + 3].n)

\* src/utils.py:74-121.  The result, sorted(set(day_numbers)), is kept as the
\* set of its elements: the callers use only any() and min() of it.
extract_days_from_range(str) ==
    IF str = <<>> THEN {}
    ELSE SingleDays(str) \cup DayRanges(str) \cup ARanges(str) \cup YDays(str)
           \cup DelAlDays(str)
           \cup (IF HasMonthLong(str) THEN PyRange(1, 31) ELSE {})

\* `month in s.lower()`: the month name is a substring of the lower-cased
\* string.  No word of the vocabulary holds a month name inside a longer word.
MonthIn(i, str) == \E j \in 1..Len(str) : IsWord(Lower(str)[j], SPANISH_MONTHS_LOWER[i + 1])

\* the months found by the loops over enumerate(SPANISH_MONTHS_LOWER), 0-based
MonthsNamed(str) == { i \in 0..11 : MonthIn(i, str) }

\* is_future_event with the day comparison made strict (day > current_date)
Mut_is_future_event_strict(str, day, current_month) ==
    LET found == MonthsNamed(str)
        first == SetMin(found)
    IN  IF found # {} /\ first > current_month THEN TRUE
        ELSE IF found # {} /\ first < current_month THEN FALSE
        ELSE IF HasMonthLong(str) THEN TRUE
        ELSE LET day_numbers == extract_days_from_range(str)
             IN  IF day_numbers = {} THEN TRUE
                 ELSE \E d \in day_numbers : d > day

\* src/utils.py:123-160, with datetime.now().month - 1 passed as current_month
is_future_event_at(str, day, current_month) ==
    LET found == MonthsNamed(str)
        first == SetMin(found)
    IN  IF found # {} /\ first > current_month THEN TRUE
        ELSE IF found # {} /\ first < current_month THEN FALSE
        ELSE IF HasMonthLong(str) THEN TRUE
        ELSE LET day_numbers == extract_days_from_range(str)
             IN  IF day_numbers = {} THEN TRUE
                 ELSE \E d \in day_numbers : d >= day

is_future_event(str, day) == is_future_event_at(str, day, now.month)

\* a sort key that takes the current month whatever month the string names
Mut_date_sort_key_at_current_month(str, current_month) ==
    IF HasMonthLong(str) THEN <<current_month, 0>>
    ELSE LET days == extract_days_from_range(str)
         IN  <<current_month, IF days # {} THEN SetMin(days) ELSE 100>>

\* a sort key without the whole-month case of lines 179-181
Mut_date_sort_key_at_no_month_long(str, current_month) ==
    LET found == MonthsNamed(str)
        month_index == IF found # {} THEN SetMin(found) ELSE current_month
        days == extract_days_from_range(str)
    IN  <<month_index, IF days # {} THEN SetMin(days) ELSE 100>>

\* a sort key that puts a date without a day first in its month (0 for 100)
Mut_date_sort_key_at_unparsed_first(str, current_month) ==
    LET found == MonthsNamed(str)
        month_index == IF found # {} THEN SetMin(found) ELSE current_month
    IN  IF HasMonthLong(str) THEN <<month_index, 0>>
        ELSE LET days == extract_days_from_range(str)
             IN  <<month_index, IF days # {} THEN SetMin(days) ELSE 0>>

\* src/utils.py:162-188
date_sort_key_at(str, current_month) ==
    LET found == MonthsNamed(str)
        month_index == IF found # {} THEN SetMin(found) ELSE current_month
    IN  IF HasMonthLong(str) THEN <<month_index, 0>>
        ELSE LET days == extract_days_from_range(str)
             IN  <<month_index, IF days # {} THEN SetMin(days) ELSE 100>>

date_sort_key(str) == date_sort_key_at(str, now.month)

-----------------------------------------------------------------------------
(* The date strings the calls are made with *)

\* day numbers written in the date strings, and the days passed as "today"
\* the year of datetime.datetime.now() in every run of the model
CurrentYear == 2025

DaySample == {3, 10, 15, 20, 28}
TodaySample == {1, 15, 31}

MonthWords == {"abril", "mayo", "junio"}

D_single(d, m)     == <<Num(d), W("de"), W(m)>>                        \* "10 de mayo"
D_range(a, b, m)   == <<Num(a), Hy, Num(b), W("de"), W(m)>>            \* "10-15 de mayo"
D_spaced(a, b, m)  == <<Num(a), W("-"), Num(b), W("de"), W(m)>>        \* "10 - 15 de mayo"
D_del_al(a, b, m)  == <<W("del"), Num(a), W("al"), Num(b), W("de"), W(m)>>
D_Del_al(a, b, m)  == <<W("Del"), Num(a), W("al"), Num(b), W("de"), W(m)>>
D_y(a, b, m)       == <<Num(a), W("y"), Num(b), W("de"), W(m)>>        \* "10 y 12 de mayo"
D_a(a, b, m)       == <<Num(a), W("a"), Num(b), W("de"), W(m)>>        \* "9 a 18 de mayo"
D_month(m)         == <<W("todo"), W("el"), W("mes"), W("de"), W(m)>>  \* "todo el mes de mayo"
D_cross(a, m1, b, m2) ==                                               \* "28 de abril - 3 de mayo"
    <<Num(a), W("de"), W(m1), W("-"), Num(b), W("de"), W(m2)>>

OneMonthDates ==
    { D_single(d, m) : d \in DaySample, m \in MonthWords }
    \cup { D_range(d[1], d[2], m) : d \in {x \in DaySample \X DaySample : x[1] < x[2]},
                                    m \in MonthWords }
    \cup { D_spaced(d[1], d[2], "mayo") : d \in {x \in DaySample \X DaySample : x[1] < x[2]} }
    \cup { D_del_al(d[1], d[2], "mayo") : d \in {x \in DaySample \X DaySample : x[1] < x[2]} }
    \cup { D_Del_al(d[1], d[2], "mayo") : d \in {x \in DaySample \X DaySample : x[1] < x[2]} }
    \cup { D_y(d[1], d[2], "mayo") : d \in {x \in DaySample \X DaySample : x[1] < x[2]} }
    \cup { D_a(d[1], d[2], "mayo") : d \in {x \in DaySample \X DaySample : x[1] < x[2]} }
    \cup { D_month(m) : m \in MonthWords }
    \cup { <<W("Durante"), W("todo"), W("el"), W("mes"), W("de"), W("Mayo")>>,
           <<W("TODO"), W("EL"), W("MES"), W("DE"), W("MAYO")>>,
           <<Num(10), W("DE"), W("MAYO")>>,        \* "10 DE MAYO"
           <<Num(28), W("de"), W("Mayo")>>,        \* "28 de Mayo"
           <<W("mayo")>> }                         \* a month and nothing else

NoMonthDates ==
    { <<>>,                                        \* ""
      <<W("proximamente")>>,
      <<W("todo"), W("el"), W("mes")>>,
      <<W("dia"), Num(10)>>,                       \* "dia 10"
      <<Num(10), W("y"), Num(20)>>,                \* "10 y 20"
      <<W("del"), Num(10), W("al"), Num(20)>>,     \* "del 10 al 20"
      <<Num(20), W("de"), W("la"), W("tarde")>> }  \* "20 de la tarde"

TwoMonthDates ==
    { D_cross(a, "abril", b, "mayo") : a \in {20, 28}, b \in {3, 15} }
    \cup { D_cross(a, "mayo", b, "junio") : a \in {20, 28}, b \in {3, 15} }

DateStrings == OneMonthDates \cup NoMonthDates \cup TwoMonthDates

DaysOfMonth == 1..31
MonthNames == { SPANISH_MONTHS_LOWER[i] : i \in 1..12 }

\* every "<d> de <month>"
SingleDayDates == { D_single(d, m) : d \in DaysOfMonth, m \in MonthNames }

\* the whole-month phrases of every month, and some in other letter cases
WholeMonthDates ==
    { D_month(m) : m \in MonthNames }
    \cup { <<W("durante")>> \o D_month(m) : m \in MonthNames }
    \cup { <<W("Todo"), W("el"), W("mes"), W("de"), W("Diciembre")>>,
           <<W("DURANTE"), W("TODO"), W("EL"), W("MES"), W("DE"), W("MAYO")>> }

SortKeyDates == DateStrings \cup SingleDayDates \cup WholeMonthDates

-----------------------------------------------------------------------------
(* The normalizers of dates: DateProcessor.format_date_range                *)
(* (src/utils.py:247-265) and EventScraper.clean_date_text                  *)
(* (src/scrapers/base.py:439-499).  The words of the dates are made of      *)
(* ASCII letters, so ([a-zA-Z]+) takes a whole word.                        *)
(* The raw dates hold no HTML tag, so the re.sub of base.py:454 leaves them *)
(* as they are.                                                             *)

\* day.lstrip('0')
LStripZero(tok) == IF tok.k = "num" THEN Num(tok.n) ELSE tok

\* f"{start_day} - {end_day} de {month.lower()}"
NormalRange(start_day, end_day, month) ==
    <<start_day, W("-"), end_day, W("de"), W(LowerWord(month.s))>>

format_date_range(start_day, end_day, month) ==
    NormalRange(LStripZero(start_day), LStripZero(end_day), month)

\* the prefixes of base.py:457, as words
DATE_PREFIXES == << <<"fecha:">>, <<"fecha">>, <<"desde", "el">>, <<"desde">>,
                    <<"a", "partir", "del">> >>

StripPrefix(str, words) ==
    IF PhraseAt(Lower(str), 1, words) THEN SubSeq(str, Len(words) + 1, Len(str)) ELSE str

\* the loop of base.py:458-460, every prefix in its turn
StripDatePrefixes(str) ==
    StripPrefix(StripPrefix(StripPrefix(StripPrefix(StripPrefix(str,
        DATE_PREFIXES[1]), DATE_PREFIXES[2]), DATE_PREFIXES[3]), DATE_PREFIXES[4]),
        DATE_PREFIXES[5])

\* (\d{1,2}) with whitespace or a separator on both sides: at most two digits
TwoDigits(tok) == tok.k = "num" /\ tok.n < 100

\* (\d{1,2}) at the start of a match: the last two digits of a longer number
LastTwo(tok) ==
    IF tok.n < 100 THEN tok
    ELSE IF tok.n % 100 < 10 THEN Num0(tok.n % 100) ELSE Num(tok.n % 100)

\* \s+(?:de\s+)?([a-zA-Z]+) after token i: the position of the word taken
\* for the month, 0 when there is none
MonthAfter(str, i) ==
    IF ~(i + 1 <= Len(str) /\ Spaced(str, i) /\ StartsAsciiLetter(str[i + 1])) THEN 0
    ELSE IF /\ IsWord(Lower(str)[i + 1], "de") /\ i + 2 <= Len(str)
            /\ Spaced(str, i + 1) /\ StartsAsciiLetter(str[i + 2])
         THEN i + 2 ELSE i + 1

\* del\s+(\d{1,2})\s+al\s+(\d{1,2})\s+de\s+([a-zA-Z]+), re.IGNORECASE
CleanDelAlAt(str, i) ==
    /\ i + 5 <= Len(str)
    /\ \A j \in i..(i + 4) : Spaced(str, j)
    /\ IsWord(Lower(str)[i], "del") /\ TwoDigits(str[i + 1])
    /\ IsWord(Lower(str)[i + 2], "al") /\ TwoDigits(str[i + 3])
    /\ IsWord(Lower(str)[i + 4], "de") /\ StartsAsciiLetter(str[i + 5])

\* (\d{1,2})\s*[-\/]\s*(\d{1,2})\s+(?:de\s+)?([a-zA-Z]+)
CleanRangeAt(str, i) ==
    /\ i + 3 <= Len(str)
    /\ str[i].k = "num"
    /\ (str[i + 1] = Hy \/ IsWord(str[i + 1], "-") \/ IsWord(str[i + 1], "/"))
    /\ TwoDigits(str[i + 2])
    /\ MonthAfter(str, i + 2) # 0

\* (\d{1,2})\s+(?:de\s+)?([a-zA-Z]+)
CleanSingleAt(str, i) == str[i].k = "num" /\ MonthAfter(str, i) # 0

\* ([a-zA-Z]+)\s+\d{4}
CleanMonthYearAt(str, i) ==
    /\ i + 1 <= Len(str) /\ Spaced(str, i)
    /\ StartsAsciiLetter(str[i]) /\ str[i + 1].k = "num" /\ str[i + 1].n >= 1000

\* src/scrapers/base.py:439-499
clean_date_text(date_text) ==
    LET str == StripDatePrefixes(date_text)
        At(P(_, _)) == { i \in 1..Len(str) : P(str, i) }
        del_al == At(CleanDelAlAt)
        range  == At(CleanRangeAt)
        single == At(CleanSingleAt)
        month_year == At(CleanMonthYearAt)
    IN  IF date_text = <<>> THEN <<>>
        ELSE IF del_al # {}
             THEN LET i == SetMin(del_al)
                  IN  NormalRange(str[i + 1], str[i + 3], str[i + 5])
        ELSE IF range # {}
             THEN LET i == SetMin(range)
                  IN  NormalRange(LastTwo(str[i]), str[i + 2], str[MonthAfter(str, i + 2)])
        ELSE IF single # {}
             THEN LET i == SetMin(single)
                  IN  <<LastTwo(str[i]), W("de"), W(LowerWord(str[MonthAfter(str, i)].s))>>
        ELSE IF month_year # {}
             THEN <<W("Todo"), W("el"), W("mes"), W("de"),
                    W(LowerWord(str[SetMin(month_year)].s))>>
        ELSE str

RangeDays == { x \in DaySample \X DaySample : x[1] < x[2] }

\* the raw dates given to clean_date_text
RawDates ==
    { D_range(d[1], d[2], m) : d \in RangeDays, m \in MonthWords }
    \cup { D_spaced(d[1], d[2], "mayo") : d \in RangeDays }
    \cup { D_del_al(d[1], d[2], m) : d \in RangeDays, m \in MonthWords }
    \cup { D_Del_al(d[1], d[2], "mayo") : d \in RangeDays }
    \cup { D_y(d[1], d[2], "mayo") : d \in RangeDays }
    \cup { D_single(d, m) : d \in DaySample, m \in MonthWords }
    \cup { D_month(m) : m \in MonthWords }
    \cup { <<>>,
           <<W("proximamente")>>,
           <<W("Del"), Num0(3), W("AL"), Num0(5), W("DE"), W("MAYO")>>,
           <<Num(10), Hy, Num(15), W("mayo")>>,                  \* "10-15 mayo"
           <<Num(10), W("/"), Num(15), W("de"), W("Mayo")>>,     \* "10 / 15 de Mayo"
           <<Num(10), W("Mayo")>>,                               \* "10 Mayo"
           <<Num(10), W("de")>>,                                 \* "10 de"
           <<W("Fecha:"), Num(10), W("de"), W("mayo")>>,
           <<W("fecha"), Num(10), Hy, Num(15), W("de"), W("mayo")>>,
           <<W("Desde"), W("el"), Num(10), W("de"), W("mayo")>>,
           <<W("desde"), Num(10), W("de"), W("mayo")>>,
           <<W("a"), W("partir"), W("del"), Num(10), W("de"), W("mayo")>>,
           <<Num(10), W("de"), W("mayo"), Num(CurrentYear)>>,    \* "10 de mayo 2025"
           <<W("Mayo"), Num(CurrentYear)>>,                      \* "Mayo 2025"
           <<Num(CurrentYear), W("mayo")>> }                     \* "2025 mayo"

NoDateResult == [fn |-> "none", future |-> FALSE, key |-> <<0, 0>>, raw |-> <<>>]

DateIdle == date_pattern = <<>> /\ current_date = 0 /\ date_result = NoDateResult

\* a call DateProcessor.is_future_event(d, today)
IsFutureEvent ==
    /\ date_result.fn = "none"
    /\ \E d \in DateStrings, today \in TodaySample :
        /\ date_pattern' = d
        /\ current_date' = today
        /\ date_result' = [fn |-> "is_future_event",
                           future |-> is_future_event(d, today),
                           key |-> <<0, 0>>, raw |-> <<>>]
        /\ UNCHANGED <<now, procVars, netVars, run, laterVars>>

\* a call DateProcessor.date_sort_key(d)
DateSortKey ==
    /\ date_result.fn = "none"
    /\ \E d \in SortKeyDates :
        /\ date_pattern' = d
        /\ current_date' = 0
        /\ date_result' = [fn |-> "date_sort_key", future |-> FALSE,
                           key |-> date_sort_key(d), raw |-> <<>>]
        /\ UNCHANGED <<now, procVars, netVars, run, laterVars>>

\* a call clean_date_text(raw), and the sort key of the date it returns
CleanDateText ==
    /\ date_result.fn = "none"
    /\ \E raw \in RawDates :
        /\ date_pattern' = clean_date_text(raw)
        /\ current_date' = 0
        /\ date_result' = [fn |-> "clean_date_text", future |-> FALSE,
                           key |-> date_sort_key(clean_date_text(raw)), raw |-> raw]
        /\ UNCHANGED <<now, procVars, netVars, run, laterVars>>

\* a call format_date_range(start_day, end_day, month), and the sort key of
\* the date it returns
FormatDateRange ==
    /\ date_result.fn = "none"
    /\ \E a, b \in DaySample, zero \in BOOLEAN, m \in MonthWords \cup {"Mayo", "MAYO"} :
        LET start_day == IF zero /\ a < 10 THEN Num0(a) ELSE Num(a)
            end_day   == IF zero /\ b < 10 THEN Num0(b) ELSE Num(b)
        IN  /\ a < b
            /\ date_pattern' = format_date_range(start_day, end_day, W(m))
            /\ current_date' = 0
            /\ date_result' = [fn |-> "format_date_range", future |-> FALSE,
                               key |-> date_sort_key(format_date_range(start_day, end_day, W(m))),
                               raw |-> <<start_day, end_day, W(m)>>]
            /\ UNCHANGED <<now, procVars, netVars, run, laterVars>>

ClockInit == now \in [month : 0..11, day : TodaySample, year : {CurrentYear}]

InitDate == ClockInit /\ DateIdle /\ ProcIdle /\ NetIdle /\ RunIdle /\ LaterIdle
NextDate == IsFutureEvent \/ DateSortKey \/ CleanDateText \/ FormatDateRange
SpecDate == InitDate /\ [][NextDate]_vars

-----------------------------------------------------------------------------
(* Python values and event records *)

\* a str, an int or None
StrV(toks) == [ty |-> "str", str |-> toks, n |-> 0]
IntV(n)   == [ty |-> "int", str |-> <<>>, n |-> n]
NoneV     == [ty |-> "none", str |-> <<>>, n |-> 0]

\* bool(v): "" and 0 and None are false
Truthy(v) == CASE v.ty = "str" -> v.str # <<>>
               [] v.ty = "int" -> v.n # 0
               [] OTHER -> FALSE

\* str(v)
PyStr(v) == CASE v.ty = "str" -> v
              [] v.ty = "int" -> StrV(<<Num(v.n)>>)
              [] OTHER -> StrV(<<W("None")>>)

(***************************************************************************)
(* An element of the events list.  isdict is FALSE for an element that is  *)
(* no mapping (it has no .get); url tells the elements of a batch apart    *)
(* and built records whether EventScraper.create_event made the record.    *)
(***************************************************************************)
Event(title, date, location, source) ==
    [isdict |-> TRUE, title |-> title, date |-> date, location |-> location,
     description |-> NoneV, source |-> source, url |-> 0, built |-> FALSE]

\* the record with the key 'description' set
Described(event, description) == [event EXCEPT !.description = StrV(description)]

NotADict == [isdict |-> FALSE, title |-> NoneV, date |-> NoneV, location |-> NoneV,
             description |-> NoneV, source |-> "", url |-> 0, built |-> FALSE]

-----------------------------------------------------------------------------
(* EventScraper.create_event, src/scrapers/base.py *)

WEEKDAYS == {"lunes", "martes", "miércoles", "jueves", "viernes", "sábado", "domingo"}

\* re.sub(r'\b0(\d)(\s+de|\s*[-\/])', r'\1\2', s): "05 de" -> "5 de", "05-" -> "5-"
StripLeadingZeros(str) ==
    [i \in 1..Len(str) |->
        IF /\ str[i].k = "num" /\ str[i].s = "0" /\ str[i].n < 10
           /\ i + 1 <= Len(str)
           /\ (IsWord(str[i + 1], "de") \/ str[i + 1] = Hy \/ IsWord(str[i + 1], "-")
                 \/ IsWord(str[i + 1], "/"))
        THEN Num(str[i].n) ELSE str[i]]

\* re.sub(f'\\s+{current_year}\\b', '', s): the year written after a space
StripCurrentYear(str) ==
    SelectSeq([i \in 1..Len(str) |->
                 IF i > 1 /\ str[i] = Num(now.year) /\ Spaced(str, i - 1)
                 THEN W("") ELSE str[i]],
              LAMBDA tok : tok # W(""))

\* src/scrapers/base.py:336-358
standardize_date_format(date) ==
    IF ~Truthy(date) THEN date
    ELSE LET s0 == date.str
             s1 == IF Len(s0) >= 2 /\ s0[1].k = "w" /\ s0[1].s \in WEEKDAYS /\ Spaced(s0, 1)
                   THEN Tail(s0) ELSE s0
         IN  StrV(StripCurrentYear(StripLeadingZeros(s1)))

\* src/scrapers/base.py:302-334
create_event(title, date, location, source) ==
    LET title_str == IF ~Truthy(title) \/ title = StrV(<<W(":")>>) THEN StrV(<<>>) ELSE title
        date_str  == standardize_date_format(date)
    IN  [isdict |-> TRUE, title |-> PyStr(title_str), date |-> PyStr(date_str),
         location |-> PyStr(location), description |-> StrV(<<>>),
         source |-> source, url |-> 0, built |-> TRUE]


-----------------------------------------------------------------------------
(* TextProcessor, src/utils.py *)

(***************************************************************************)
(* The words of titles and locations.  Every word is made of letters only  *)
(* (accented ones included) and is written all lower-case, capitalized or  *)
(* all upper-case, except "aGeNdA" and the sign tokens below; so the       *)
(* patterns that look inside a word for a quote, a full stop, a comma or a *)
(* lower-case letter followed by an upper-case one can match only where    *)
(* the tables below say.                                                   *)
(***************************************************************************)
SignWords == {"-", ":", ",", "/", ""}

\* the token is made of \w characters only
PlainTok(tok) == tok.k = "num" \/ (tok.k = "w" /\ tok.s \notin SignWords)

\* `sub in word` for the lower-cased words of the vocabulary
WordHas(word, sub) == word = sub \/ <<word, sub>> \in {<<"agendas", "agenda">>}

\* src/utils.py:285-288
VENUE_WORDS == << "Teatro", "Auditorio", "Sala", "Centro", "Pabellón",
                  "Plaza", "Factoría", "Recinto", "Museo" >>

\* re.search(pattern, title.lower()) for the patterns of NON_EVENT_PATTERNS
\* (src/utils.py:294-297), in their order
NonEventMatch(low, p) ==
    CASE p = 1 -> \E i \in 1..Len(low) : low[i].k = "w" /\ WordHas(low[i].s, "agenda")
      [] p = 2 -> \E i \in 1..Len(low) :
                     /\ PhraseAt(low, i, <<"asturias", "en">>)
                     /\ i + 2 <= Len(low) /\ Spaced(low, i + 1)
                     /\ StartsAsciiLetter(low[i + 2])
      [] p = 3 -> \E i \in 1..Len(low) : PhraseAt(low, i, <<"¿quieres", "saber">>)
      [] p = 4 -> \E i \in 1..Len(low) : low[i].k = "w" /\ WordHas(low[i].s, "planes")
      [] OTHER -> \E i \in 1..Len(low) : PhraseAt(low, i, <<"vamos", "allá">>)

\* is_non_event without title.lower(): the patterns on the title as written
Mut_is_non_event_case_sensitive(title) == \E p \in 1..5 : NonEventMatch(title, p)

\* src/utils.py:609-620
is_non_event(title) == \E p \in 1..5 : NonEventMatch(Lower(title), p)

\* re.sub(r'([a-z])([A-Z])', r'\1 \2', word)
SplitCamel(tok) ==
    IF tok = W("aGeNdA") THEN <<W("a"), W("Ge"), W("Nd"), W("A")>> ELSE <<tok>>

RECURSIVE Flatten(_)
Flatten(seqs) == IF seqs = <<>> THEN <<>> ELSE Head(seqs) \o Flatten(Tail(seqs))

\* re.sub(r'^en\s+(?:el|la|los|las)\s+', '', s) and then re.sub(r'^en\s+', '', s)
StripEnPrefix(str) ==
    LET s1 == IF /\ Len(str) >= 3 /\ IsWord(str[1], "en")
                 /\ str[2].k = "w" /\ str[2].s \in {"el", "la", "los", "las"}
                 /\ Spaced(str, 1) /\ Spaced(str, 2)
              THEN SubSeq(str, 3, Len(str)) ELSE str
    IN  IF Len(s1) >= 2 /\ IsWord(s1[1], "en") /\ Spaced(s1, 1) THEN Tail(s1) ELSE s1

\* re.sub(r'el día$', '', s), re.sub(r'con la banda.*$', '', s),
\* re.sub(r'para presentar.*$', '', s)
CutFrom(str, words) ==
    LET hits == { i \in 1..Len(str) : PhraseAt(str, i, words) }
    IN  IF hits = {} THEN str ELSE SubSeq(str, 1, SetMin(hits) - 1)

StripSpecialCases(str) ==
    LET s1 == IF Len(str) >= 2 /\ PhraseAt(str, Len(str) - 1, <<"el", "día">>)
              THEN SubSeq(str, 1, Len(str) - 2) ELSE str
    IN  CutFrom(CutFrom(s1, <<"con", "la", "banda">>), <<"para", "presentar">>)

\* s.rstrip('- ,:')
RECURSIVE RStripSigns(_)
RStripSigns(str) ==
    IF str # <<>> /\ (str[Len(str)] = Hy \/ (str[Len(str)].k = "w"
                         /\ str[Len(str)].s \in {"-", ",", ":", ""}))
    THEN RStripSigns(SubSeq(str, 1, Len(str) - 1)) ELSE str

\* src/utils.py:412-449.  On the vocabulary the quote, punctuation, prefix
\* ("la", "el", "de", "del", "un" before an upper-case letter) and "Dr,"
\* substitutions find nothing to change.
apply_formatting_fixes(text) ==
    RStripSigns(StripSpecialCases(StripEnPrefix(
        Flatten([i \in 1..Len(text) |-> SplitCamel(text[i])]))))

\* the match of word\s+[\w\s\.]+ that starts at token i: the venue word and
\* the run of plain tokens after it
VenueRunEnd(str, i) ==
    SetMin({ j \in i..Len(str) : j = Len(str) \/ ~PlainTok(str[j + 1]) \/ ~Spaced(str, j) })

\* re.search(f"{word}\\s+[\\w\\s\\.]+", s, re.IGNORECASE)
VenueSearch(str, word) ==
    LET hits == { i \in 1..Len(str) :
                    /\ i + 1 <= Len(str)
                    /\ str[i].k = "w" /\ LowerWord(str[i].s) = LowerWord(word)
                    /\ Spaced(str, i) /\ PlainTok(str[i + 1]) }
    IN  IF hits = {} THEN <<>>
        ELSE SubSeq(str, SetMin(hits), VenueRunEnd(str, SetMin(hits)))

\* src/utils.py:451-472
extract_location_from_title(title) ==
    LET clean_title == apply_formatting_fixes(title)
        found == { w \in 1..Len(VENUE_WORDS) : VenueSearch(clean_title, VENUE_WORDS[w]) # <<>> }
    IN  IF found = {} THEN <<>> ELSE VenueSearch(clean_title, VENUE_WORDS[SetMin(found)])

(***************************************************************************)
(* TextProcessor.extract_location_from_text, src/utils.py:474-510.  The    *)
(* texts it is given here are descriptions made of words only, without     *)
(* dots or commas, none of which ends in "en" or "de" or holds "lugar"     *)
(* but these words themselves.                                             *)
(***************************************************************************)

\* src/utils.py:291
CITY_NAMES == <<"Oviedo", "Gijón", "Avilés", "Langreo", "Mieres", "Siero", "Lugones">>

ARTICLES == {"el", "la", "los", "las"}

\* lugar:?\s*([^.,\n]+), re.IGNORECASE
LugarAt(text, i) ==
    \/ LowerWord(text[i].s) = "lugar:"
    \/ LowerWord(text[i].s) = "lugar" /\ i < Len(text)

\* en\s+(?:el|la|los|las)?\s+([\w\s.-]+)(?:de|en)\s+([\w\s]+), re.IGNORECASE
EnElAt(text, i) ==
    /\ i + 1 <= Len(text)
    /\ LowerWord(text[i].s) = "en" /\ LowerWord(text[i + 1].s) \in ARTICLES
    /\ \E j \in (i + 3)..(Len(text) - 1) : LowerWord(text[j].s) \in {"de", "en"}

\* en\s+([\w\s.-]+), re.IGNORECASE
EnAt(text, i) == i + 1 <= Len(text) /\ LowerWord(text[i].s) = "en"

\* the three re.sub of lines 500-502: re.IGNORECASE is passed as the count,
\* so the prefixes are matched in lower case only
StripLocationPrefixes(location) ==
    LET Drop(str, n) == SubSeq(str, n + 1, Len(str))
        s1 == IF Len(location) >= 3 /\ location[1].s = "en" /\ location[2].s \in ARTICLES
              THEN Drop(location, 2) ELSE location
        s2 == IF Len(s1) >= 2 /\ s1[1].s = "en" THEN Drop(s1, 1) ELSE s1
    IN  IF s2 # <<>> /\ s2[1].s \in {"lugar", "lugar:"} THEN Drop(s2, 1) ELSE s2

extract_location_from_text(text) ==
    LET venues == { w \in 1..Len(VENUE_WORDS) : VenueSearch(text, VENUE_WORDS[w]) # <<>> }
        At(P(_, _)) == { i \in 1..Len(text) : P(text, i) }
        From(S) == StripLocationPrefixes(SubSeq(text, SetMin(S), Len(text)))
        cities == { c \in 1..Len(CITY_NAMES) :
                      \E i \in 1..Len(text) : LowerWord(text[i].s) = LowerWord(CITY_NAMES[c]) }
    IN  IF text = <<>> THEN <<>>
        ELSE IF venues # {} THEN VenueSearch(text, VENUE_WORDS[SetMin(venues)])
        ELSE IF At(LugarAt) # {} THEN From(At(LugarAt))
        ELSE IF At(EnElAt) # {} THEN From(At(EnElAt))
        ELSE IF At(EnAt) # {} THEN From(At(EnAt))
        ELSE IF cities # {} THEN <<W(CITY_NAMES[SetMin(cities)])>>
        ELSE <<>>

\* the descriptions of the events
DescriptionTexts ==
    { <<W("En"), W("el"), W("Teatro"), W("Campoamor")>>,
      <<W("Concierto"), W("en"), W("Gijón")>>,
      <<W("En"), W("la"), W("Laboral"), W("de"), W("Gijón")>>,
      <<W("en"), W("la"), W("Laboral"), W("de"), W("Gijón")>>,
      <<W("Lugar:"), W("Laboral")>>,
      <<W("lugar:"), W("Laboral")>>,
      <<W("Visita"), W("Oviedo")>>,
      <<W("Música")>>,
      <<>> }

-----------------------------------------------------------------------------
(* EventProcessor, src/processor.py *)

\* len(str(n)) for the numbers of the model
DigitCount(n) == IF n < 10 THEN 1 ELSE IF n < 100 THEN 2 ELSE IF n < 1000 THEN 3 ELSE 4

TokLen(tok) == IF tok.k = "num" THEN DigitCount(tok.n) + Len(tok.s) ELSE Len(tok.s)

RECURSIVE CharLen(_)
\* len(s)
CharLen(str) ==
    IF str = <<>> THEN 0
    ELSE TokLen(str[1]) + (IF Len(str) >= 2 /\ Spaced(str, 1) THEN 1 ELSE 0) + CharLen(Tail(str))

\* `words in s`: the phrase occurs in the string (case-sensitive)
HasPhrase(str, words) == \E i \in 1..Len(str) : PhraseAt(str, i, words)

\* src/processor.py:137-175.  As in apply_formatting_fixes, the punctuation,
\* prefix, "Dr," and "C/" substitutions change no string of the vocabulary.
\* What a special-case pattern cuts off the end leaves the space before it:
\* the location then ends with an empty word.
fix_formatting_issues(location) ==
    LET split == StripEnPrefix(Flatten([i \in 1..Len(location) |-> SplitCamel(location[i])]))
        cut == StripSpecialCases(split)
    IN  IF cut # split /\ cut # <<>> THEN cut \o <<W("")>> ELSE cut

\* s.strip() on a string that may end with a space
Strip(str) ==
    IF str # <<>> /\ str[Len(str)] = W("") THEN SubSeq(str, 1, Len(str) - 1) ELSE str

\* the table of specific locations without its "NIEMEYER" entry
Mut_handle_specific_locations_no_niemeyer(location) ==
    IF HasPhrase(location, <<"El", "Atrio">>) THEN location
    ELSE IF HasPhrase(location, <<"La", "Florida", "con">>)
    THEN <<W("Centro"), W("Social"), W("La"), W("Florida,"), W("Oviedo")>>
    ELSE IF HasPhrase(location, <<"Factoría", "Cultural">>)
    THEN <<W("Factoría"), W("Cultural,"), W("Avilés")>>
    ELSE location

\* src/processor.py:177-208
handle_specific_locations(location) ==
    IF HasPhrase(location, <<"El", "Atrio">>)
    THEN IF HasPhrase(location, <<"Cuba">>)
         THEN <<W("Centro"), W("Comercial"), W("'El"), W("Atrio'"), W("(C/"),
                W("Cámara,"), W("Cuba,"), W("Dr.),"), W("Avilés")>>
         ELSE location
    ELSE IF HasPhrase(location, <<"La", "Florida", "con">>)
    THEN <<W("Centro"), W("Social"), W("La"), W("Florida,"), W("Oviedo")>>
    ELSE IF HasPhrase(location, <<"Factoría", "Cultural">>)
    THEN <<W("Factoría"), W("Cultural,"), W("Avilés")>>
    ELSE IF HasPhrase(location, <<"NIEMEYER">>)
    THEN <<W("Centro"), W("Niemeyer,"), W("Avilés")>>
    ELSE IF Strip(location) = <<W("Plaza")>>
    THEN <<W("Plaza"), W("de"), W("Asturias,"), W("Oviedo")>>
    ELSE IF Strip(location) = <<W("Centro"), W("Social")>>
    THEN <<W("Centro"), W("Social"), W("de"), W("Oviedo")>>
    ELSE IF HasPhrase(location, <<"Centro", "Social">>) /\ CharLen(Strip(location)) < 20
    THEN SubSeq(location, 1, Len(location) - 1)
           \o <<W(location[Len(location)].s \o ","), W("Oviedo")>>
    ELSE location

\* the word ends with "," or ".": it closes a run of [^,.] characters
EndsSegment(tok) ==
    tok.k = "w" /\ tok.s \in {"Cámara,", "Cuba,", "Dr.),", "Florida,", "Cultural,",
                              "Niemeyer,", "Asturias,", "Social,", "Campoamor,"}

\* the venue keywords of _extract_venue_and_city's two patterns and of its loop
VENUE_KEYWORDS == {"Teatro", "Auditorio", "Centro", "Sala", "Pabellón",
                   "Plaza", "Factoría", "Museo", "Arena"}
VENUE_KEYWORDS_LOOP == {"Teatro", "Auditorio", "Centro", "Sala", "Pabellón",
                        "Plaza", "Factoría", "Museo", "Recinto"}

\* the word ends with "de" or "en", so (?:de|en)\s+ can match at its end
EndsDeEn(tok) == tok.k = "w" /\ tok.s \in {"de", "en"}

\* tokens a..b are one run of [^,.] characters
OneSegment(str, a, b) == \A i \in a..(b - 1) : ~EndsSegment(str[i])

\* re.search(r'([^,.]+(?:KW)[^,.]+)(?:de|en)\s+([^,.]+)', s): <<a, j, b>> with
\* group 1 the tokens a..j-1, (?:de|en) token j and group 2 the tokens j+1..b
VenueCityMatches(str) ==
    { m \in (1..Len(str)) \X (1..Len(str)) \X (1..Len(str)) :
        /\ m[1] < m[2] /\ m[2] < m[3]
        /\ (m[1] = 1 \/ EndsSegment(str[m[1] - 1]))
        /\ (m[3] = Len(str) \/ EndsSegment(str[m[3]]))
        /\ OneSegment(str, m[1], m[3])
        /\ EndsDeEn(str[m[2]])
        /\ \E k \in m[1]..(m[2] - 1) :
              /\ str[k].k = "w" /\ str[k].s \in VENUE_KEYWORDS
              /\ (k > m[1] \/ m[1] > 1) }

\* re.sub(r'\d+\s+de\s+\w+', '', s) and re.sub(r'el\s+\w+\s+\d+', '', s), each
\* followed by strip(): on the locations of the model, which hold no number,
\* nothing is removed
RemoveDates(str) == str

\* the text of a word without its closing "," or "."
Unpunct(tok) ==
    CASE tok = W("Florida,") -> W("Florida")
      [] tok = W("Cultural,") -> W("Cultural")
      [] tok = W("Niemeyer,") -> W("Niemeyer")
      [] tok = W("Asturias,") -> W("Asturias")
      [] tok = W("Social,") -> W("Social")
      [] tok = W("Campoamor,") -> W("Campoamor")
      [] OTHER -> tok

\* src/processor.py:210-258.  No location of the model is longer than 80
\* characters, so the truncation branch is not taken.
extract_venue_and_city(location) ==
    LET ms == VenueCityMatches(location)
    IN  IF ms # {}
        THEN LET a == SetMin({ m[1] : m \in ms })
                 j == -SetMin({ -m[2] : m \in { x \in ms : x[1] = a } })
                 b == CHOOSE x \in 1..Len(location) : <<a, j, x>> \in ms
             IN  SubSeq(location, a, j - 1) \o <<LP>>
                   \o RemoveDates(SubSeq(location, j + 1, b - 1) \o <<Unpunct(location[b])>>)
                   \o <<RP>>
        ELSE IF \E i \in 1..Len(location) :
                   location[i].k = "w" /\ location[i].s \in VENUE_KEYWORDS_LOOP
        THEN RemoveDates(location)
        ELSE location

\* src/processor.py:106-135
clean_location(location) ==
    IF location = <<>> THEN <<>>
    ELSE extract_venue_and_city(
             Strip(handle_specific_locations(fix_formatting_issues(location))))

\* src/processor.py:81-104
fix_centro_social_location(location) ==
    IF location = <<W("Plaza")>>
    THEN <<W("Plaza"), W("de"), W("Asturias,"), W("Oviedo")>>
    ELSE IF location = <<W("Centro"), W("Social"), W("El")>>
    THEN <<W("Centro"), W("Social"), W("El"), W("Cortijo,"), W("Oviedo")>>
    ELSE IF location = <<W("Centro"), W("Social"), W("Bra")>>
    THEN <<W("Centro"), W("Social"), W("Braulio,"), W("Oviedo")>>
    ELSE IF location \in { <<W("Centro"), W("Social")>>, <<W("Social")>> }
    THEN <<W("Centro"), W("Social"), W("de"), W("Oviedo")>>
    ELSE IF /\ HasPhrase(location, <<"Centro", "Social">>) /\ CharLen(location) < 25
            /\ ~HasPhrase(location, <<"Oviedo">>)
    THEN SubSeq(location, 1, Len(location) - 1)
           \o <<W(location[Len(location)].s \o ","), W("Oviedo")>>
    ELSE location

\* src/processor.py:62-79.  The event's title is a non-empty str here, and its
\* location a str or None.
complete_location_info(event) ==
    LET loc1 == IF ~Truthy(event.location)
                THEN StrV(extract_location_from_title(event.title.str))
                ELSE event.location
        loc2 == IF event.source = "Centros Sociales Oviedo" /\ Truthy(loc1)
                THEN StrV(fix_centro_social_location(loc1.str)) ELSE loc1
        loc3 == IF Truthy(loc2) THEN StrV(clean_location(loc2.str)) ELSE loc2
    IN  [event EXCEPT !.location = loc3]


\* tuple comparison a <= b of two sort keys
KeyLE(a, b) == a[1] < b[1] \/ (a[1] = b[1] /\ a[2] <= b[2])

\* an unstable insertion: x goes before the elements of equal key
RECURSIVE Mut_InsertByKey_unstable(_, _)
Mut_InsertByKey_unstable(sorted, x) ==
    IF sorted = <<>> THEN <<x>>
    ELSE IF LET a == date_sort_key(Head(sorted).date.str)
                b == date_sort_key(x.date.str)
            IN  a[1] < b[1] \/ (a[1] = b[1] /\ a[2] < b[2])
         THEN <<Head(sorted)>> \o Mut_InsertByKey_unstable(Tail(sorted), x)
         ELSE <<x>> \o sorted

\* the place list.sort gives x among the already sorted elements: after every
\* element whose key is not greater (the sort is stable)
RECURSIVE InsertByKey(_, _)
InsertByKey(sorted, x) ==
    IF sorted = <<>> THEN <<x>>
    ELSE IF KeyLE(date_sort_key(Head(sorted).date.str), date_sort_key(x.date.str))
         THEN <<Head(sorted)>> \o InsertByKey(Tail(sorted), x)
         ELSE <<x>> \o sorted

RECURSIVE SortByDateKey(_)
\* filtered_events.sort(key=lambda x: date_sort_key(x['date'])), src/processor.py:56-58
SortByDateKey(list) ==
    IF list = <<>> THEN <<>>
    ELSE InsertByKey(SortByDateKey(SubSeq(list, 1, Len(list) - 1)), list[Len(list)])

Returned(list) == [state |-> "returned", list |-> list]
Raised         == [state |-> "raised", list |-> <<>>]

\* the loop without the check of lines 42-43 for a missing title or date
Mut_LoopStep_keeps_empty(event) ==
    IF ~event.isdict THEN "raise"
    ELSE IF event.title.ty # "str" \/ event.date.ty # "str" THEN "raise"
    ELSE IF is_non_event(event.title.str) THEN "skip"
    ELSE IF is_future_event(event.date.str, now.day) THEN "keep"
    ELSE "skip"

\* one turn of the loop of src/processor.py:40-53 on `event`: "raise" when a
\* call on it raises (event.get on a non-mapping, title.lower() or
\* date.lower() on a non-str), else "skip" or "keep"
LoopStep(event) ==
    IF ~event.isdict THEN "raise"
    ELSE IF ~Truthy(event.title) \/ ~Truthy(event.date) THEN "skip"
    ELSE IF event.title.ty # "str" THEN "raise"
    ELSE IF is_non_event(event.title.str) THEN "skip"
    ELSE IF event.date.ty # "str" THEN "raise"
    ELSE IF is_future_event(event.date.str, now.day) THEN "keep"
    ELSE "skip"

RECURSIVE FilterLoop(_, _)
\* the for loop of src/processor.py:40-53, from `list` on with `filtered` collected
FilterLoop(list, filtered) ==
    IF list = <<>> THEN Returned(filtered)
    ELSE LET step == LoopStep(Head(list))
         IN  IF step = "raise" THEN Raised
             ELSE IF step = "keep"
                  THEN FilterLoop(Tail(list), Append(filtered, complete_location_info(Head(list))))
                  ELSE FilterLoop(Tail(list), filtered)

\* src/processor.py:22-60
process_events(list) ==
    IF list = <<>> THEN Returned(<<>>)
    ELSE LET looped == FilterLoop(list, <<>>)
         IN  IF looped.state = "raised" THEN Raised
             ELSE Returned(SortByDateKey(looped.list))

-----------------------------------------------------------------------------
(* The batches process_events is called with *)

\* the longest batch
MaxBatch == 2

T_concierto == StrV(<<W("Concierto")>>)
T_festival  == StrV(<<W("Festival")>>)
T_venue     == StrV(<<W("Concierto"), W("en"), W("el"), W("Teatro"), W("Jovellanos")>>)
L_none      == StrV(<<>>)
L_teatro    == StrV(<<W("Teatro"), W("Campoamor")>>)

WellFormedPool ==
    { Event(T_concierto, StrV(D_single(20, "mayo")), L_teatro, "Telecable"),
      Event(T_venue, StrV(D_range(20, 28, "mayo")), L_none, "Telecable"),
      Event(T_festival, StrV(D_single(10, "mayo")), L_none, "Telecable"),
      Event(T_festival, StrV(D_month("mayo")),
            StrV(<<W("en"), W("el"), W("Teatro"), W("Campoamor")>>), "Telecable"),
      Event(T_concierto, StrV(D_single(3, "junio")), NoneV, "Visit Oviedo"),
      Event(T_concierto, StrV(D_single(28, "abril")), L_teatro, "Visit Oviedo"),
      Event(T_festival, StrV(<<W("proximamente")>>),
            StrV(<<W("Centro"), W("Social")>>), "Centros Sociales Oviedo"),
      Event(T_concierto, StrV(<<W("junio")>>), L_teatro, "Visit Oviedo"),
      Described(Event(T_festival, StrV(D_single(20, "mayo")), L_none, "Telecable"),
                <<W("En"), W("el"), W("Teatro"), W("Campoamor")>>),
      Described(Event(T_venue, StrV(D_single(20, "mayo")), NoneV, "Visit Oviedo"),
                <<W("Concierto"), W("en"), W("Gijón")>>),
      create_event(T_festival, StrV(<<W("lunes"), Num0(3), W("de"), W("junio"), Num(CurrentYear)>>),
                   L_none, "Turismo Asturias") }

\* titles that hold "agenda" in some letter case, one per kind of date
AgendaPool ==
    { Event(StrV(<<W("Agenda"), W("cultural")>>), StrV(D_single(20, "mayo")), L_none, "Telecable"),
      Event(StrV(<<W("AGENDA")>>), StrV(D_month("mayo")), L_none, "Telecable"),
      Event(StrV(<<W("Festival"), W("aGeNdA")>>), StrV(<<W("proximamente")>>), L_none, "Telecable"),
      Event(StrV(<<W("Agendas"), W("de"), W("junio")>>), StrV(D_single(3, "abril")), L_none, "Telecable"),
      create_event(StrV(<<W("agenda")>>), StrV(D_single(3, "junio")), L_none, "Telecable") }

\* records without a title or a date
EmptyPool ==
    { Event(StrV(<<>>), StrV(D_single(20, "mayo")), L_none, "Telecable"),
      Event(T_concierto, StrV(<<>>), L_none, "Telecable"),
      Event(NoneV, StrV(D_single(20, "mayo")), L_none, "Telecable"),
      Event(StrV(<<W(":")>>), StrV(D_single(20, "mayo")), L_none, "Telecable"),
      create_event(StrV(<<W(":")>>), StrV(D_single(20, "mayo")), L_none, "Telecable"),
      create_event(NoneV, StrV(D_single(20, "mayo")), L_none, "Telecable"),
      create_event(T_concierto, NoneV, L_none, "Telecable") }

\* records that are no well-formed event
MalformedPool ==
    { NotADict,
      Event(IntV(5), StrV(D_single(20, "mayo")), L_none, "Telecable"),
      Event(T_concierto, IntV(20), L_none, "Telecable"),
      Event(StrV(<<W("Agenda")>>), IntV(20), L_none, "Telecable") }

EventPool == WellFormedPool \cup AgendaPool \cup EmptyPool \cup MalformedPool

\* the batches: the elements of a batch are numbered by their url
Batches ==
    UNION { { [i \in 1..n |-> [f[i] EXCEPT !.url = i]] : f \in [1..n -> EventPool] } :
              n \in 0..MaxBatch }

\* a call EventProcessor.process_events(batch)
ProcessEvents ==
    /\ processed.state = "none"
    /\ \E batch \in Batches :
        /\ events' = batch
        /\ processed' = process_events(batch)
        /\ UNCHANGED <<now, dateVars, netVars, run, laterVars>>

ProcClockInit == now \in [month : {4, 5}, day : {1, 15}, year : {CurrentYear}]

InitProcess == ProcClockInit /\ DateIdle /\ ProcIdle /\ NetIdle /\ RunIdle /\ LaterIdle
NextProcess == ProcessEvents
SpecProcess == InitProcess /\ [][NextProcess]_vars

-----------------------------------------------------------------------------
(* EventScraper.fetch_page_with_retry, src/scrapers/base.py:212-286 *)

\* the largest max_retries and max_pages a scraper is configured with
MaxRetriesCfg == 4
MaxPagesCfg == 3

URLS == {"u1", "u2", "u3"}

(***************************************************************************)
(* The text of a page.  What the scrapers read from it is the number of    *)
(* events it lists and its next-page link: "none" when the page has no     *)
(* such link, "nohref" when the link has no href, else the URL.  The empty *)
(* text is EmptyText.                                                      *)
(***************************************************************************)
EmptyText == NoResponse.text
Texts == {EmptyText} \cup [empty : {FALSE}, n : {0, 2}, next : {"none", "nohref"} \cup URLS]

StatusSample == {204, 301, 400, 404, 429, 499, 500, 503, 599, 600}

\* what requests.get does: a response with a status code, or an exception
Responses ==
    [kind : {"response"}, status : {200}, text : Texts]
    \cup [kind : {"response"}, status : StatusSample, text : {EmptyText}]
    \cup [kind : {"Timeout", "ConnectionError", "RequestException", "Exception"},
          status : {0}, text : {EmptyText}]

ReturnNone(f) == [f EXCEPT !.pc = "done", !.result = [ty |-> "none", text |-> EmptyText]]

\* a loop that makes one attempt more than max_retries
Mut_RetryOrGiveUp_extra(f, max_retries) ==
    IF f.attempt <= max_retries THEN [f EXCEPT !.pc = "sleep"] ELSE ReturnNone(f)

\* the end of a turn of the loop that did not return or break (lines 273-282)
RetryOrGiveUp(f, max_retries) ==
    IF f.attempt < max_retries THEN [f EXCEPT !.pc = "sleep"] ELSE ReturnNone(f)

\* a loop that gives up on every 4xx response, 429 included
Mut_AfterResponse_no_429(f0, r, max_retries) ==
    LET f == [f0 EXCEPT !.requests = @ + 1, !.last = r]
    IN  IF r.kind # "response" THEN RetryOrGiveUp(f, max_retries)
        ELSE IF r.status = 200
             THEN [f EXCEPT !.pc = "done", !.result = [ty |-> "text", text |-> r.text]]
        ELSE IF 400 <= r.status /\ r.status < 500 THEN ReturnNone(f)
        ELSE IF 500 <= r.status /\ r.status < 600 THEN RetryOrGiveUp(f, max_retries)
        ELSE ReturnNone(f)

\* the turn of the loop (lines 236-277) in which requests.get answers r
AfterResponse(f0, r, max_retries) ==
    LET f == [f0 EXCEPT !.requests = @ + 1, !.last = r]
    IN  IF r.kind # "response" THEN RetryOrGiveUp(f, max_retries)
        ELSE IF r.status = 200
             THEN [f EXCEPT !.pc = "done", !.result = [ty |-> "text", text |-> r.text]]
        ELSE IF 400 <= r.status /\ r.status < 500
             THEN IF r.status # 429 THEN ReturnNone(f) ELSE RetryOrGiveUp(f, max_retries)
        ELSE IF 500 <= r.status /\ r.status < 600 THEN RetryOrGiveUp(f, max_retries)
        ELSE ReturnNone(f)

\* the call fetch_page_with_retry(url): the loop is entered with attempt 1,
\* or not at all
StartFetch(url, max_retries) ==
    LET f == [NoFetch EXCEPT !.url = url, !.attempt = 1, !.pc = "get"]
    IN  IF 1 <= max_retries THEN f ELSE ReturnNone([f EXCEPT !.attempt = 0])

RECURSIVE Pow2(_)
Pow2(n) == IF n = 0 THEN 1 ELSE 2 * Pow2(n - 1)

\* a linear backoff: retry_delay * attempt
Mut_AfterSleep_linear(f, retry_delay) ==
    [f EXCEPT !.slept = Append(@, retry_delay * f.attempt),
              !.attempt = @ + 1, !.pc = "get"]

\* time.sleep(delay) of lines 278-282 and the next turn of the loop
AfterSleep(f, retry_delay) ==
    [f EXCEPT !.slept = Append(@, retry_delay * Pow2(f.attempt - 1)),
              !.attempt = @ + 1, !.pc = "get"]

FetchPageWithRetry ==
    \E url \in URLS :
        /\ fetch.pc = "idle"
        /\ fetch' = StartFetch(url, config.max_retries)
        /\ UNCHANGED <<now, dateVars, procVars, config, pag, run, laterVars>>

FetchGet ==
    \E r \in Responses :
        /\ fetch.pc = "get"
        /\ fetch' = AfterResponse(fetch, r, config.max_retries)
        /\ UNCHANGED <<now, dateVars, procVars, config, pag, run, laterVars>>

FetchSleep ==
    /\ fetch.pc = "sleep"
    /\ fetch' = AfterSleep(fetch, config.retry_delay)
    /\ UNCHANGED <<now, dateVars, procVars, config, pag, run, laterVars>>

\* the retry_delay of a scraper: the default and one other
RetryDelays == {GLOBAL_SETTINGS.retry_delay, 5}

IdleClock == now = [month |-> 4, day |-> 15, year |-> CurrentYear]

InitFetch ==
    /\ IdleClock /\ DateIdle /\ ProcIdle /\ RunIdle /\ LaterIdle
    /\ config \in [timeout : {GLOBAL_SETTINGS.timeout}, max_retries : 0..MaxRetriesCfg,
                   retry_delay : RetryDelays,
                   max_pages : {GLOBAL_SETTINGS.max_pages}]
    /\ fetch = NoFetch /\ pag = NoScrape
NextFetch == FetchPageWithRetry \/ FetchGet \/ FetchSleep
SpecFetch == InitFetch /\ [][NextFetch]_vars
\* requests.get returns or raises within its timeout, and time.sleep returns
SpecFetchFair == SpecFetch /\ WF_vars(NextFetch)

-----------------------------------------------------------------------------
(* Pagination: EventScraper.process_pagination (src/scrapers/base.py:360-437) *)
(* under TurismoAsturiasScraper.scrape, and BiodevasScraper.scrape           *)

\* fetch_and_parse (src/scrapers/base.py:288-300): the fetched text has a
\* soup unless the fetch returned None or an empty text
HasSoup(f) == f.result.ty = "text" /\ ~f.result.text.empty

\* _extract_events_from_page: the events the page at url lists
extract_page_events(url, text) == [i \in 1..text.n |-> [url |-> url, i |-> i]]

\* the page as fetched, kept for the record of the pages of a scrape
PageRecord(url, text) == [url |-> url, n |-> text.n, next |-> text.next]

Mut_PagesToFetch_one_more(cfg) == cfg.max_pages + 1

\* pages_to_fetch of line 380, with max_pages not given by the caller
PagesToFetch(cfg) == cfg.max_pages

Mut_ExtendEvents_overwrite(all_events, page_events) == page_events

\* all_events.extend(page_events), line 394
ExtendEvents(all_events, page_events) == all_events \o page_events

\* return all_events (line 437); the try of scrape() has nothing to catch
ReturnEvents(p) == [p EXCEPT !.pc = "returned", !.result = p.all_events]

\* the call scrape() of TurismoAsturiasScraper: process_pagination up to the
\* first fetch_and_parse (lines 377-387)
TurismoStart(url, cfg) ==
    LET p == [NoScrape EXCEPT !.scraper = "turismo_asturias", !.current_page = 1,
                              !.current_url = url]
    IN  IF p.current_page <= PagesToFetch(cfg)
        THEN [pag |-> [p EXCEPT !.pc = "fetching", !.fetches = 1],
              fetch |-> StartFetch(url, cfg.max_retries)]
        ELSE [pag |-> ReturnEvents(p), fetch |-> NoFetch]

\* the rest of a turn of the while loop, from the return of fetch_and_parse
\* (lines 387-434), and the next turn up to its fetch_and_parse
TurismoAfterFetch(p0, f, cfg) ==
    IF ~HasSoup(f)
    THEN [pag |-> ReturnEvents([p0 EXCEPT !.failed = p0.current_page]), fetch |-> NoFetch]
    ELSE LET text == f.result.text
             p1 == [p0 EXCEPT
                      !.all_events = ExtendEvents(@, extract_page_events(p0.current_url, text)),
                      !.pages = Append(@, PageRecord(p0.current_url, text))]
         IN  IF p1.current_page >= PagesToFetch(cfg) \/ text.next \in {"none", "nohref"}
             THEN [pag |-> ReturnEvents(p1), fetch |-> NoFetch]
             ELSE LET p2 == [p1 EXCEPT !.current_url = text.next, !.current_page = @ + 1]
                  IN  IF p2.current_page <= PagesToFetch(cfg)
                      THEN [pag |-> [p2 EXCEPT !.fetches = @ + 1],
                            fetch |-> StartFetch(text.next, cfg.max_retries)]
                      ELSE [pag |-> ReturnEvents(p2), fetch |-> NoFetch]

\* the call scrape() of BiodevasScraper up to its first fetch_and_parse
BiodevasStart(url, cfg) ==
    [pag |-> [NoScrape EXCEPT !.scraper = "biodevas", !.current_page = 1,
                              !.current_url = url, !.pc = "fetching", !.fetches = 1],
     fetch |-> StartFetch(url, cfg.max_retries)]

\* BiodevasScraper.scrape from the return of a fetch_and_parse (src/scrapers/biodevas.py:29-50)
BiodevasAfterFetch(p0, f, cfg) ==
    IF ~HasSoup(f)
    THEN [pag |-> ReturnEvents([p0 EXCEPT !.failed = p0.current_page]), fetch |-> NoFetch]
    ELSE LET text == f.result.text
             p1 == [p0 EXCEPT !.all_events = @ \o extract_page_events(p0.current_url, text),
                              !.pages = Append(@, PageRecord(p0.current_url, text))]
         IN  IF p1.current_page = 1 /\ text.next \in URLS /\ Len(p1.all_events) > 0
             THEN [pag |-> [p1 EXCEPT !.current_url = text.next, !.current_page = 2,
                                      !.fetches = @ + 1],
                   fetch |-> StartFetch(text.next, cfg.max_retries)]
             ELSE [pag |-> ReturnEvents(p1), fetch |-> NoFetch]

Scrape ==
    \E scraper \in {"turismo_asturias", "biodevas"}, url \in {"u1"} :
        LET next == IF scraper = "biodevas" THEN BiodevasStart(url, config)
                    ELSE TurismoStart(url, config)
        IN  /\ pag.pc = "idle"
            /\ pag' = next.pag
            /\ fetch' = next.fetch
            /\ UNCHANGED <<now, dateVars, procVars, config, run, laterVars>>

PageFetched ==
    LET next == IF pag.scraper = "biodevas" THEN BiodevasAfterFetch(pag, fetch, config)
                ELSE TurismoAfterFetch(pag, fetch, config)
    IN  /\ pag.pc = "fetching" /\ fetch.pc = "done"
        /\ pag' = next.pag
        /\ fetch' = next.fetch
        /\ UNCHANGED <<now, dateVars, procVars, config, run, laterVars>>

InitPaginate ==
    /\ IdleClock /\ DateIdle /\ ProcIdle /\ RunIdle /\ LaterIdle
    /\ config \in [timeout : {GLOBAL_SETTINGS.timeout}, max_retries : 0..MaxRetriesCfg,
                   retry_delay : {GLOBAL_SETTINGS.retry_delay}, max_pages : 0..MaxPagesCfg]
    /\ fetch = NoFetch /\ pag = NoScrape
NextPaginate == Scrape \/ FetchGet \/ FetchSleep \/ PageFetched
SpecPaginate == InitPaginate /\ [][NextPaginate]_vars
SpecPaginateFair == SpecPaginate /\ WF_vars(NextPaginate)

-----------------------------------------------------------------------------
(* run_scrapers, src/main.py:125-174 *)

\* the longest list of scraper ids given to run_scrapers
MaxSelected == 2

\* the ids of SITE_CONFIGS (src/scrapers/config.py:44-80), all enabled, in
\* their order; they are the ids of SCRAPER_REGISTRY
SITE_CONFIGS == << "telecable", "turismo_asturias", "visit_oviedo", "biodevas",
                   "aviles", "oviedo_announcements" >>

IdSample == {"telecable", "biodevas", "nonexistent"}

\* create_scraper (src/scrapers/factory.py:76-106): no scraper for an id
\* that is not registered
Registered(id) == \E k \in 1..Len(SITE_CONFIGS) : SITE_CONFIGS[k] = id

\* the list `scrapers` of lines 139-153: the scrapers of the ids given, or
\* all enabled scrapers when no id is given
ScrapersToRun(scraper_ids) ==
    IF scraper_ids # <<>> THEN SelectSeq(scraper_ids, Registered) ELSE SITE_CONFIGS

\* what scraper.scrape() does: it raises, or returns None, [] or n events
ScrapeOutcomes ==
    [kind : {"raise", "None"}, n : {0}] \cup [kind : {"list"}, n : {0, 1, 2}]

ScrapedEvents(name, pos, outcome) ==
    [k \in 1..outcome.n |-> [source |-> name, pos |-> pos, k |-> k]]

\* a loop that an exception of scrape() ends
Mut_AfterScrape_abort(r, outcome) ==
    LET logged == [r EXCEPT !.ran = Append(@, [pos |-> r.i, outcome |-> outcome])]
    IN  IF outcome.kind = "raise" THEN [logged EXCEPT !.i = Len(r.scrapers) + 1]
        ELSE IF outcome.n = 0 THEN [logged EXCEPT !.i = @ + 1]
        ELSE [logged EXCEPT !.i = @ + 1,
                            !.all_events = @ \o ScrapedEvents(r.scrapers[r.i], r.i, outcome)]

\* one turn of the loop of lines 159-172, scrape() ending with `outcome`
AfterScrape(r, outcome) ==
    LET logged == [r EXCEPT !.i = @ + 1, !.ran = Append(@, [pos |-> r.i, outcome |-> outcome])]
    IN  IF outcome.kind = "raise" \/ outcome.n = 0 THEN logged
        ELSE [logged EXCEPT !.all_events = @ \o ScrapedEvents(r.scrapers[r.i], r.i, outcome)]

Selections == UNION { [1..n -> IdSample] : n \in 0..MaxSelected }

RunScrapers ==
    \E scraper_ids \in Selections :
        /\ run.pc = "idle"
        /\ run' = [NoRun EXCEPT !.pc = "loop", !.scrapers = ScrapersToRun(scraper_ids), !.i = 1]
        /\ UNCHANGED <<now, dateVars, procVars, netVars, laterVars>>

RunNextScraper ==
    \E outcome \in ScrapeOutcomes :
        /\ run.pc = "loop" /\ run.i <= Len(run.scrapers)
        /\ run' = AfterScrape(run, outcome)
        /\ UNCHANGED <<now, dateVars, procVars, netVars, laterVars>>

RunReturn ==
    /\ run.pc = "loop" /\ run.i > Len(run.scrapers)
    /\ run' = [run EXCEPT !.pc = "returned"]
    /\ UNCHANGED <<now, dateVars, procVars, netVars, laterVars>>

InitRun == IdleClock /\ DateIdle /\ ProcIdle /\ NetIdle /\ RunIdle /\ LaterIdle
NextRun == RunScrapers \/ RunNextScraper \/ RunReturn
SpecRun == InitRun /\ [][NextRun]_vars

-----------------------------------------------------------------------------
(* main, src/main.py:216-247, with process_and_save_events, lines 177-213 *)

\* what the scrapers collected, when it is not empty: batches of the pool
MainBatches ==
    { <<Event(T_concierto, StrV(D_single(20, "mayo")), L_teatro, "Telecable")>>,
      <<Event(T_concierto, StrV(D_single(28, "abril")), L_teatro, "Visit Oviedo")>>,
      <<Event(StrV(<<W("Agenda")>>), StrV(D_single(20, "mayo")), L_none, "Telecable")>>,
      <<Event(IntV(5), StrV(D_single(20, "mayo")), L_none, "Telecable"),
        Event(T_concierto, StrV(D_single(20, "mayo")), L_teatro, "Telecable")>> }

\* the command line: argparse ends the process itself on a usage error
\* (exit code 2) and on --help (exit code 0), lines 86-122
CommandLines ==
    [kind : {"usage_error", "help"}, scraper_ids : {<<>>}]
    \cup [kind : {"args"}, scraper_ids : Selections]

Exited(m, code) == [m EXCEPT !.pc = "exited", !.exit = code]

\* an exit that reports failure only when argparse does
Mut_ExitCaught_zero(m) == Exited([m EXCEPT !.caught = TRUE], 0)

\* the handler of lines 242-247: log the exception and sys.exit(1)
ExitCaught(m) == Exited([m EXCEPT !.caught = TRUE], 1)

\* parse_args() of line 225, before the try
AfterParseArgs(m, cl) ==
    CASE cl.kind = "usage_error" -> Exited(m, 2)
      [] cl.kind = "help" -> Exited(m, 0)
      [] OTHER -> [m EXCEPT !.pc = "logging", !.scraper_ids = cl.scraper_ids]

\* setup_logging() of line 228, before the try: an exception of it (the log
\* file cannot be opened) is not caught and ends the process with code 1
AfterSetupLogging(m, ok) ==
    IF ok THEN [m EXCEPT !.pc = "scraping"] ELSE Exited(m, 1)

\* process_and_save_events(events, output_file) under the try of main, given
\* what process_events does with the batch and whether the file is written
AfterProcessAndSave(m, nevents, outcome, written) ==
    IF nevents = 0 THEN Exited(m, 0)
    ELSE IF outcome.state = "raised" THEN ExitCaught(m)
    ELSE IF outcome.list = <<>> THEN Exited(m, 0)
    ELSE IF ~written THEN ExitCaught(m)
    ELSE Exited([m EXCEPT !.saved = Len(outcome.list)], 0)

Main ==
    \E cl \in CommandLines :
        /\ mainp.pc = "idle"
        /\ mainp' = AfterParseArgs(mainp, cl)
        /\ UNCHANGED <<now, dateVars, procVars, netVars, run, llmVars, textVars, otherVars>>

MainSetupLogging ==
    \E ok \in BOOLEAN :
        /\ mainp.pc = "logging"
        /\ mainp' = AfterSetupLogging(mainp, ok)
        /\ UNCHANGED <<now, dateVars, procVars, netVars, run, llmVars, textVars, otherVars>>

\* the call run_scrapers(scraper_ids) of line 237
MainRunScrapers ==
    /\ mainp.pc = "scraping" /\ run.pc = "idle"
    /\ run' = [NoRun EXCEPT !.pc = "loop", !.scrapers = ScrapersToRun(mainp.scraper_ids), !.i = 1]
    /\ UNCHANGED <<now, dateVars, procVars, netVars, mainp, llmVars, textVars, otherVars>>

-----------------------------------------------------------------------------
(* The explorastur package: the LLM entry points, src/explorastur/           *)
(* llm_client.py and url_processor.py, and parse_events,                     *)
(* src/explorastur/event_parser.py                                           *)

\* the key is not in the JSON object
Absent == [ty |-> "absent", str |-> <<>>, n |-> 0]

\* the values of a JSON array: an object with its "title" and "date", or a
\* number
Obj(title, date) == [ty |-> "dict", title |-> title, date |-> date, n |-> 0]
NumItem(n)       == [ty |-> "int", title |-> Absent, date |-> Absent, n |-> n]

\* what json.loads(content) gives, or that it raises JSONDecodeError
JList(items)  == [ty |-> "list", items |-> items]
JDict(item)   == [ty |-> "dict", items |-> <<item>>]
JScalar(ty)   == [ty |-> ty, items |-> <<>>]
NotJson       == [ty |-> "invalid", items |-> <<>>]

(***************************************************************************)
(* What the LLM server does with the POST: the request fails               *)
(* ("ConnectError"), or a response comes with a status and a body.  The    *)
(* body is not JSON ("notjson"), has no key "choices" ("nochoices"), has   *)
(* an empty list of choices ("emptychoices"), or holds the content of the  *)
(* first choice.                                                           *)
(***************************************************************************)
Reply(kind, status, body, content) ==
    [kind |-> kind, status |-> status, body |-> body, content |-> content]
Answer(content) == Reply("response", 200, "content", content)

\* the outcome of a call: the list returned, or the class of the exception raised
LLMReturned(list) == [state |-> "returned", list |-> list, error |-> ""]
LLMRaised(exc)    == [state |-> "raised", list |-> <<>>, error |-> exc]

\* events = [events] if isinstance(events, dict) else [], url_processor.py:82-83
Coerce(val) == IF val.ty = "dict" THEN val.items ELSE <<>>

\* src/explorastur/url_processor.py:48-85, the server answering `reply`
get_llm_response(reply) ==
    IF reply.kind # "response" THEN LLMRaised(reply.kind)
    ELSE IF reply.status >= 400 THEN LLMRaised("HTTPStatusError")
    ELSE IF reply.body = "notjson" THEN LLMRaised("JSONDecodeError")
    ELSE IF reply.body = "nochoices" THEN LLMRaised("KeyError")
    ELSE IF reply.body = "emptychoices" THEN LLMRaised("IndexError")
    ELSE IF reply.content.ty = "invalid" THEN LLMRaised("JSONDecodeError")
    ELSE IF reply.content.ty = "list" THEN LLMReturned(reply.content.items)
    ELSE LLMReturned(Coerce(reply.content))

\* src/explorastur/llm_client.py:21-77: `fields` are the replacement fields
\* of prompt_template, which line 36 formats with html_content alone
extract_events(fields, reply) ==
    IF ~(fields \subseteq {"html_content"}) THEN LLMRaised("KeyError")
    ELSE IF reply.kind # "response" THEN LLMRaised(reply.kind)
    ELSE IF reply.status >= 400 THEN LLMRaised("HTTPStatusError")
    ELSE IF reply.body = "notjson" THEN LLMRaised("JSONDecodeError")
    ELSE IF reply.body = "nochoices" THEN LLMRaised("ValueError")
    ELSE IF reply.body = "emptychoices" THEN LLMRaised("IndexError")
    ELSE IF reply.content.ty = "invalid" THEN LLMRaised("ValueError")
    ELSE IF reply.content.ty = "list" THEN LLMReturned(reply.content.items)
    ELSE IF reply.content.ty = "dict" THEN LLMReturned(reply.content.items)
    ELSE LLMRaised("ValueError")

\* the replacement fields of DEFAULT_PROMPT_TEMPLATE, src/explorastur/config.py:12-29
DEFAULT_PROMPT_TEMPLATE == {"event_html"}

\* src/explorastur/config.py:9, with no LLM_API_BASE_URL in the environment
LLM_API_BASE_URL == "http://localhost:1234/v1"

\* client.post(f"{api_base_url}/chat/completions", json=payload); `embedded`
\* is what the prompt of the user message holds besides the fixed text
ChatRequest(api_base_url, embedded) ==
    [method |-> "POST", url |-> <<api_base_url, "/chat/completions">>, embedded |-> embedded]

\* the requests LLMClient.extract_events sends, src/explorastur/llm_client.py:36-53:
\* format() of line 36 raises KeyError before anything is sent when the
\* template has a replacement field other than html_content
extract_events_posts(html_content, fields) ==
    IF ~(fields \subseteq {"html_content"}) THEN <<>>
    ELSE <<ChatRequest(LLM_API_BASE_URL,
                       IF "html_content" \in fields THEN <<html_content>> ELSE <<>>)>>

\* the request of URLEventProcessor._get_llm_response, url_processor.py:50-75
get_llm_response_posts == <<ChatRequest(LLM_API_BASE_URL, <<"url">>)>>

\* the days of the months of a year that is not a leap year
DaysInMonth(m) == IF m = 2 THEN 28 ELSE IF m \in {4, 6, 9, 11} THEN 30 ELSE 31

Pad2(n) == IF n < 10 THEN Num0(n) ELSE Num(n)

\* strftime("%Y-%m-%d")
IsoDate(y, m, d) == <<Num(y), Hy, Pad2(m), Hy, Pad2(d)>>

\* three numbers joined by hyphens
Hyphened(str) ==
    /\ Len(str) = 5 /\ str[2] = Hy /\ str[4] = Hy
    /\ \A i \in {1, 3, 5} : str[i].k = "num"

IsYear(tok)     == tok.s = "" /\ 1000 <= tok.n /\ tok.n <= 9999
IsMonth(tok)    == 1 <= tok.n /\ tok.n <= 12
IsDay(tok, m)   == 1 <= tok.n /\ tok.n <= DaysInMonth(m)

\* Event.validate_date, src/event_parser.py:18-37, for the dates written
\* with hyphens or in words: of the five formats "%Y-%m-%d" and "%d-%m-%Y"
\* alone can match them
validate_date(v) ==
    IF v.ty # "str" \/ v.str = <<>> THEN v
    ELSE LET str == v.str
         IN  IF Hyphened(str) /\ IsYear(str[1]) /\ IsMonth(str[3]) /\ IsDay(str[5], str[3].n)
             THEN StrV(IsoDate(str[1].n, str[3].n, str[5].n))
             ELSE IF Hyphened(str) /\ IsYear(str[5]) /\ IsMonth(str[3])
                     /\ IsDay(str[1], str[3].n)
             THEN StrV(IsoDate(str[5].n, str[3].n, str[1].n))
             ELSE v

\* Event(**event_dict) succeeds: a mapping with a str for title and a str or
\* nothing for date
ValidEvent(item) ==
    /\ item.ty = "dict" /\ item.title.ty = "str"
    /\ item.date.ty \in {"str", "none", "absent"}

\* the Event built from a valid item
ParsedEvent(item) ==
    [title |-> item.title,
     date |-> IF item.date.ty = "absent" THEN NoneV ELSE validate_date(item.date)]

RECURSIVE parse_events(_)
\* src/explorastur/event_parser.py:40-60
parse_events(events_data) ==
    IF events_data = <<>> THEN <<>>
    ELSE LET rest == parse_events(Tail(events_data))
         IN  IF ValidEvent(Head(events_data))
             THEN <<ParsedEvent(Head(events_data))>> \o rest
             ELSE rest

\* a URL as urlparse splits it: "https://a.es/agenda", "agenda", "https://"
Url(scheme, netloc, path) == [scheme |-> scheme, netloc |-> netloc, path |-> path]

\* src/explorastur/url_processor.py:40-46
is_valid_url(url) == url.scheme # "" /\ url.netloc # ""

\* The clock of the url_processor module counts from the moment the module
\* is imported.  The default of processed_at, datetime.now() of
\* src/explorastur/url_processor.py:19, is evaluated then, once, when the
\* class body runs, and no caller passes processed_at.
IMPORTED_AT == 0

\* src/explorastur/url_processor.py:13-19
ProcessingResult(url, parsed, error) ==
    [url |-> url, events |-> parsed, error |-> error, processed_at |-> IMPORTED_AT]

\* process_url without the try of lines 100-105
Mut_process_url_uncaught(url, reply) ==
    IF ~is_valid_url(url)
    THEN [state |-> "returned",
          result |-> ProcessingResult(url, <<>>, StrV(<<W("Invalid"), W("URL"), W("format")>>))]
    ELSE LET got == get_llm_response(reply)
         IN  IF got.state = "raised"
             THEN [state |-> "raised", result |-> ProcessingResult(url, <<>>, NoneV)]
             ELSE [state |-> "returned",
                   result |-> ProcessingResult(url, parse_events(got.list), NoneV)]

\* src/explorastur/url_processor.py:87-105; str(e) of an exception is written
\* as the name of its class
process_url(url, reply) ==
    IF ~is_valid_url(url)
    THEN [state |-> "returned",
          result |-> ProcessingResult(url, <<>>, StrV(<<W("Invalid"), W("URL"), W("format")>>))]
    ELSE LET got == get_llm_response(reply)
         IN  IF got.state = "raised"
             THEN [state |-> "returned",
                   result |-> ProcessingResult(url, <<>>, StrV(<<W(got.error)>>))]
             ELSE [state |-> "returned",
                   result |-> ProcessingResult(url, parse_events(got.list), NoneV)]

\* src/explorastur/html_fetcher.py:46-67 with no selector: `source` is a URL
\* whose page is `page`, or the HTML itself
FetchFailed == "RequestException"
get_html_content(source, page) == IF source.is_url THEN page ELSE source.text

\* src/explorastur/main.py:14-50 with no selector and the default API URL
extract_events_from_source(source, page, fields, reply) ==
    IF source.is_url /\ page = FetchFailed
    THEN [posts |-> <<>>] @@ LLMRaised(FetchFailed)
    ELSE LET html_content == get_html_content(source, page)
         IN  IF html_content = "" THEN [posts |-> <<>>] @@ LLMRaised("ValueError")
             ELSE LET events_data == extract_events(fields, reply)
                  IN  [posts |-> extract_events_posts(html_content, fields)]
                      @@ (IF events_data.state = "raised" THEN events_data
                          ELSE LLMReturned(parse_events(events_data.list)))

-----------------------------------------------------------------------------
(* The replies of the LLM server and the URLs *)

\* the longest list given to process_urls, and the longest JSON array
MaxUrls == 2
MaxItems == 2

D_iso   == StrV(<<Num(CurrentYear), Hy, Num0(5), Hy, Num(20)>>)      \* "2025-05-20"
D_short == StrV(<<Num(CurrentYear), Hy, Num(5), Hy, Num(20)>>)       \* "2025-5-20"
D_dmy   == StrV(<<Num(20), Hy, Num0(5), Hy, Num(CurrentYear)>>)      \* "20-05-2025"
D_feb30 == StrV(<<Num(CurrentYear), Hy, Num0(2), Hy, Num(30)>>)      \* "2025-02-30"
D_free  == StrV(<<W("proximamente")>>)

Items ==
    { Obj(T_concierto, D_iso), Obj(T_festival, D_dmy), Obj(T_concierto, Absent),
      Obj(Absent, D_iso), Obj(NoneV, D_free), NumItem(5) }

ItemLists == UNION { [1..n -> Items] : n \in 0..MaxItems }

Contents ==
    { JList(l) : l \in ItemLists }
    \cup { JDict(Obj(T_concierto, D_short)), JDict(Obj(T_festival, D_feb30)),
           JDict(Obj(Absent, D_iso)) }
    \cup { JScalar("null"), JScalar("int"), JScalar("str"), NotJson }

Replies ==
    { Answer(c) : c \in Contents }
    \cup { Reply("ConnectError", 0, "", NotJson),
           Reply("response", 404, "", NotJson), Reply("response", 500, "", NotJson),
           Reply("response", 200, "notjson", NotJson),
           Reply("response", 200, "nochoices", NotJson),
           Reply("response", 200, "emptychoices", NotJson) }

\* the replies the server gives while process_urls runs
ReplySample ==
    { Answer(JList(<<Obj(T_concierto, D_iso), Obj(Absent, D_iso)>>)),
      Answer(JList(<<>>)),
      Answer(JDict(Obj(T_festival, D_dmy))),
      Answer(JScalar("int")),
      Answer(NotJson),
      Reply("response", 404, "", NotJson),
      Reply("response", 200, "nochoices", NotJson),
      Reply("ConnectError", 0, "", NotJson) }

\* no request was made
NoReply == Reply("none", 0, "", NotJson)

UrlSample ==
    { Url("https", "a.es", "/agenda"), Url("https", "b.es", "/agenda"),
      Url("", "", "agenda"), Url("https", "", "") }

UrlLists == UNION { [1..n -> UrlSample] : n \in 0..MaxUrls }

\* the prompt templates by their replacement fields, and the HTML handed over
PromptTemplates == {DEFAULT_PROMPT_TEMPLATE, {"html_content"}, {}}
HtmlSample == {"", "<li>Concierto</li>", "<p>{event_html}</p>"}
Sources ==
    { [is_url |-> TRUE, text |-> "https://a.es/agenda"] }
    \cup { [is_url |-> FALSE, text |-> h] : h \in HtmlSample }

\* a call LLMClient.extract_events(html_content, prompt_template)
ExtractEvents ==
    /\ llmc.fn = "none"
    /\ \E fields \in PromptTemplates, html_content \in HtmlSample, reply \in Replies :
        /\ llmc' = [fn |-> "extract_events", fields |-> fields, html |-> html_content,
                    reply |-> reply, posts |-> extract_events_posts(html_content, fields)]
                   @@ extract_events(fields, reply)
        /\ UNCHANGED <<now, dateVars, procVars, netVars, run, mainp, urlp, textVars, otherVars>>

\* a call URLEventProcessor._get_llm_response(url)
GetLLMResponse ==
    /\ llmc.fn = "none"
    /\ \E reply \in Replies :
        /\ llmc' = [fn |-> "_get_llm_response", fields |-> {}, html |-> "", reply |-> reply,
                    posts |-> get_llm_response_posts]
                   @@ get_llm_response(reply)
        /\ UNCHANGED <<now, dateVars, procVars, netVars, run, mainp, urlp, textVars, otherVars>>

\* a call extract_events_from_source(source, prompt_template=...)
ExtractEventsFromSource ==
    /\ llmc.fn = "none"
    /\ \E fields \in PromptTemplates, source \in Sources, page \in HtmlSample \cup {FetchFailed},
          reply \in ReplySample :
        /\ source.is_url \/ page = ""
        /\ llmc' = [fn |-> "extract_events_from_source", fields |-> fields,
                    html |-> IF source.is_url /\ page = FetchFailed THEN ""
                             ELSE get_html_content(source, page),
                    reply |-> reply]
                   @@ extract_events_from_source(source, page, fields, reply)
        /\ UNCHANGED <<now, dateVars, procVars, netVars, run, mainp, urlp, textVars, otherVars>>

InitLLM == IdleClock /\ DateIdle /\ ProcIdle /\ NetIdle /\ RunIdle /\ LaterIdle
NextLLM == ExtractEvents \/ GetLLMResponse
SpecLLM == InitLLM /\ [][NextLLM]_vars

\* the calls that hand HTML content to the LLM
NextSource == ExtractEvents \/ ExtractEventsFromSource
SpecSource == InitLLM /\ [][NextSource]_vars

\* process_url(url) returned or raised: the turn of the list comprehension
\* of line 117
AfterProcessUrl(u, reply, done) ==
    IF done.state = "raised" THEN [u EXCEPT !.pc = "raised", !.replies = Append(@, reply)]
    ELSE [u EXCEPT !.replies = Append(@, reply), !.results = Append(@, done.result)]

\* the time that passes before a call of process_urls and while process_url
\* runs, in ticks of the clock
Elapsed == {0, 1}

\* a call URLEventProcessor.process_urls(urls)
ProcessUrls ==
    /\ urlp.pc = "idle"
    /\ \E urls \in UrlLists :
        /\ \E passed \in Elapsed :
              urlp' = [NoUrls EXCEPT !.pc = "loop", !.urls = urls,
                                     !.clock = passed, !.started_at = passed]
        /\ UNCHANGED <<now, dateVars, procVars, netVars, run, mainp, llmc, textVars, otherVars>>

\* process_url of the next URL; the server is asked for a valid URL only
ProcessUrl ==
    /\ urlp.pc = "loop" /\ Len(urlp.results) < Len(urlp.urls)
    /\ LET url == urlp.urls[Len(urlp.results) + 1]
       IN  \E reply \in ReplySample \cup {NoReply} :
               /\ (reply = NoReply) <=> ~is_valid_url(url)
               /\ \E passed \in Elapsed :
                     urlp' = [AfterProcessUrl(urlp, reply, process_url(url, reply))
                                EXCEPT !.clock = @ + passed, !.created = Append(@, urlp.clock + passed)]
    /\ UNCHANGED <<now, dateVars, procVars, netVars, run, mainp, llmc, textVars, otherVars>>

ProcessUrlsReturn ==
    /\ urlp.pc = "loop" /\ Len(urlp.results) = Len(urlp.urls)
    /\ urlp' = [urlp EXCEPT !.pc = "returned"]
    /\ UNCHANGED <<now, dateVars, procVars, netVars, run, mainp, llmc, textVars, otherVars>>

InitUrls == IdleClock /\ DateIdle /\ ProcIdle /\ NetIdle /\ RunIdle /\ LaterIdle
NextUrls == ProcessUrls \/ ProcessUrl \/ ProcessUrlsReturn
SpecUrls == InitUrls /\ [][NextUrls]_vars

-----------------------------------------------------------------------------
(***************************************************************************)
(* TextProcessor.clean_title, src/utils.py:314-382.  A title is a sequence *)
(* of tokens written with single spaces between them.  The titles of this  *)
(* section hold no quote character and no HTML entity, so the quote steps  *)
(* (lines 345-362) and the entity step (line 368) leave them as they are,  *)
(* and no title reaches the "L.E.V. Festival" case of line 377: its prefix *)
(* "1 a 4 de mayo" is removed at line 343 before the test.                 *)
(***************************************************************************)

\* [a-zA-Z]+ takes the whole token: a word of the vocabulary written in
\* ASCII letters only
AsciiWord(tok) ==
    /\ StartsAsciiLetter(tok)
    /\ tok.s \notin {"día", "Gijón", "Música", "Avilés", "Factoría", "Lugar:", "lugar:",
                     "Fecha:", "Asturias,", "Campoamor,", "Cultural,", "Social,",
                     "Florida,", "Niemeyer,", "Braulio,", "Cortijo,", "Cuba,",
                     "Cámara,", "Dr.),", "(C/", "'El", "Atrio'"}

\* title.startswith(prefix), for a prefix that ends with a whole word
StartsWith(title, prefix) ==
    Len(prefix) <= Len(title) /\ SubSeq(title, 1, Len(prefix)) = prefix

\* re.sub(r'^(\d+\s+de\s+[a-zA-Z]+\s+)', '', title): the prefix goes with the
\* whitespace after it, so something has to follow the month
StripDayOfMonth(title) ==
    IF /\ Len(title) >= 4
       /\ IsNum(title[1]) /\ IsWord(title[2], "de") /\ AsciiWord(title[3])
       /\ \A i \in 1..3 : Spaced(title, i)
    THEN SubSeq(title, 4, Len(title)) ELSE title

\* src/utils.py:300-305: the number of tokens DATE_PREFIX_PATTERNS[p] matches
\* at the start of the title, 0 when it does not match
DATE_PREFIX_PATTERNS(title, p) ==
    CASE p = 1 ->
           IF /\ Len(title) >= 5 /\ PhraseAt(title, 1, <<"Hasta", "el">>)
              /\ IsNum(title[3]) /\ IsWord(title[4], "de") /\ AsciiWord(title[5])
              /\ \A i \in 2..4 : Spaced(title, i)
           THEN 5 ELSE 0
      [] p = 2 ->
           IF /\ Len(title) >= 6
              /\ PhraseAt(title, 1, <<"Durante", "todo", "el", "mes", "de">>)
              /\ AsciiWord(title[6]) /\ Spaced(title, 5)
           THEN 6 ELSE 0
      [] p = 3 ->
           IF /\ Len(title) >= 5
              /\ IsNum(title[1]) /\ IsWord(title[2], "a") /\ IsNum(title[3])
              /\ IsWord(title[4], "de") /\ AsciiWord(title[5])
              /\ \A i \in 1..4 : Spaced(title, i)
           THEN 5 ELSE 0
      [] OTHER ->
           IF /\ Len(title) >= 5
              /\ IsNum(title[1]) /\ title[2] = Hy /\ IsNum(title[3])
              /\ IsWord(title[4], "de") /\ AsciiWord(title[5])
              /\ Spaced(title, 3) /\ Spaced(title, 4)
           THEN 5 ELSE 0

(***************************************************************************)
(* src/utils.py:342-343.  Each pattern is anchored at the start and takes  *)
(* no whitespace after the month, so what is left of the title starts with *)
(* a space (`lead`) and no later pattern anchored with ^ matches it until  *)
(* _apply_formatting_fixes strips the title.                               *)
(***************************************************************************)
StripDatePrefix(title) ==
    LET hits == { p \in 1..4 : DATE_PREFIX_PATTERNS(title, p) > 0 }
        rest == SubSeq(title, DATE_PREFIX_PATTERNS(title, SetMin(hits)) + 1, Len(title))
    IN  IF hits = {} THEN [title |-> title, lead |-> FALSE]
        ELSE [title |-> rest, lead |-> rest # <<>>]

\* re.sub(r'^Ver evento\s+', '', title)
StripVerEvento(t) ==
    IF /\ ~t.lead /\ Len(t.title) >= 3
       /\ PhraseAt(t.title, 1, <<"Ver", "evento">>) /\ Spaced(t.title, 2)
    THEN [t EXCEPT !.title = SubSeq(t.title, 3, Len(t.title))] ELSE t

\* re.sub(r'^[:\-–—]+\s*', '', title): one run of signs, written without
\* spaces, and the whitespace after it
StripLeadingSigns(t) ==
    IF /\ ~t.lead /\ t.title # <<>>
       /\ t.title[1].k = "w" /\ t.title[1].s \in {":", "-"}
    THEN [t EXCEPT !.title = Tail(t.title)] ELSE t

\* src/utils.py:308-312
SMALL_WORDS ==
    { "a", "e", "o", "y", "u", "de", "la", "el", "del", "los", "las",
      "en", "con", "por", "para", "al", "su", "sus", "tu", "tus",
      "mi", "mis", "un", "una", "unos", "unas", "lo", "que" }

\* word.isupper() on the words of the vocabulary
IsUpper(s) ==
    s \in {"A", "AGENDA", "AL", "DE", "DURANTE", "EL", "MAYO", "MES", "TODO",
           "CONCIERTO", "JAZZ", "EN"}

\* word.capitalize() on the words of the vocabulary: the first letter in
\* upper case, the others in lower case
Capitalize(s) ==
    LET low == LowerWord(s)
    IN  CASE low = "a" -> "A"
          [] low = "banda" -> "Banda"
          [] low = "campoamor" -> "Campoamor"
          [] low = "con" -> "Con"
          [] low = "concierto" -> "Concierto"
          [] low = "de" -> "De"
          [] low = "durante" -> "Durante"
          [] low = "día" -> "Día"
          [] low = "el" -> "El"
          [] low = "en" -> "En"
          [] low = "evento" -> "Evento"
          [] low = "hasta" -> "Hasta"
          [] low = "jazz" -> "Jazz"
          [] low = "la" -> "La"
          [] low = "mayo" -> "Mayo"
          [] low = "mes" -> "Mes"
          [] low = "teatro" -> "Teatro"
          [] low = "todo" -> "Todo"
          [] low = "ver" -> "Ver"
          [] OTHER -> s

\* the body of the loop of src/utils.py:399-408 for the word at index i
\* (`first` is i == 0)
FixWord(word, first) ==
    IF IsUpper(word) /\ Len(word) > 2 THEN Capitalize(word)
    ELSE IF LowerWord(word) \in SMALL_WORDS /\ ~first THEN LowerWord(word)
    ELSE IF first /\ ~IsUpper(word) THEN Capitalize(word)
    ELSE word

\* src/utils.py:384-410.  title.split() gives one word per token: only
\* numbers are written with a hyphen between them, and no branch changes a
\* word of digits and hyphens.
fix_title_capitalization(title) ==
    [i \in 1..Len(title) |->
        IF title[i].k = "w" THEN W(FixWord(title[i].s, i = 1)) ELSE title[i]]

\* src/utils.py:314-382; date_prefix is the argument date_pattern, <<>> for
\* None
clean_title(title, date_prefix, fix_capitalization) ==
    IF title = <<>> \/ title = <<W(":")>> THEN <<>>
    ELSE
        LET t1 == IF title[1] = W(":") THEN Tail(title) ELSE title
            t2 == IF date_prefix # <<>> /\ StartsWith(t1, date_prefix)
                  THEN SubSeq(t1, Len(date_prefix) + 1, Len(t1)) ELSE t1
            t3 == StripLeadingSigns(StripVerEvento(StripDatePrefix(StripDayOfMonth(t2))))
            t4 == apply_formatting_fixes(t3.title)
        IN  IF fix_capitalization THEN fix_title_capitalization(t4) ELSE t4

(***************************************************************************)
(* The titles of the runs: up to two prefixes, a body and an ending.       *)
(***************************************************************************)
TitlePrefixes ==
    { <<>>,
      D_single(10, "mayo"),
      <<W("Hasta"), W("el"), Num(5), W("de"), W("mayo")>>,
      <<W("Durante"), W("todo"), W("el"), W("mes"), W("de"), W("mayo")>>,
      <<Num(3), W("a"), Num(10), W("de"), W("mayo")>>,
      D_range(3, 10, "mayo"),
      <<W("Ver"), W("evento")>>,
      <<W("en")>>,
      <<W("en"), W("el")>>,
      <<W(":")>>,
      <<W("-")>> }

TitleBodies ==
    { <<>>,
      <<W("Concierto")>>,
      <<W("Teatro"), W("Campoamor")>>,
      <<W("CONCIERTO"), W("DE"), W("JAZZ")>>,
      <<W("concierto"), W("En"), W("el"), W("Teatro")>> }

TitleEndings ==
    { <<>>,
      <<W("el"), W("día")>>,
      <<W("el"), W("día"), W("el"), W("día")>>,
      <<W("con"), W("la"), W("banda")>>,
      <<W("-")>> }

Titles ==
    { p \o q \o b \o e : p \in TitlePrefixes, q \in TitlePrefixes,
                         b \in TitleBodies, e \in TitleEndings }

TitleDatePatterns == { <<>>, D_single(10, "mayo") }

\* clean_title on a title, and then on the title it returned
CleanTitle ==
    /\ titlep.fn = "none"
    /\ \E title \in Titles, date_prefix \in TitleDatePatterns, fix \in BOOLEAN :
         LET once == clean_title(title, date_prefix, fix)
         IN  titlep' = [fn |-> "clean_title", title |-> title,
                        date_pattern |-> date_prefix, fix_capitalization |-> fix,
                        once |-> once, twice |-> clean_title(once, date_prefix, fix)]
    /\ UNCHANGED <<now, dateVars, procVars, netVars, run, mainp, llmVars, locp, otherVars>>

InitTitle == IdleClock /\ DateIdle /\ ProcIdle /\ NetIdle /\ RunIdle /\ LaterIdle
NextTitle == CleanTitle
SpecTitle == InitTitle /\ [][NextTitle]_vars

-----------------------------------------------------------------------------
(***************************************************************************)
(* TextProcessor.clean_location, src/utils.py:559-607, next to             *)
(* EventProcessor._clean_location.  Both hold the same table of specific   *)
(* locations; TextProcessor returns the table's answer as it is, and       *)
(* EventProcessor passes it on to _extract_venue_and_city.                 *)
(***************************************************************************)

\* src/utils.py:585-598: one of the patterns of specific_locations is in the
\* location, or it is one of the truncated locations
IsSpecificLocation(location) ==
    \/ HasPhrase(location, <<"El", "Atrio">>)
    \/ HasPhrase(location, <<"La", "Florida", "con">>)
    \/ HasPhrase(location, <<"Factoría", "Cultural">>)
    \/ HasPhrase(location, <<"NIEMEYER">>)
    \/ location = <<W("Plaza")>>
    \/ location = <<W("Centro"), W("Social")>>
    \/ (HasPhrase(location, <<"Centro", "Social">>) /\ CharLen(location) < 20)

\* the matches of VenueCityMatches with the venue words `keywords`
VenueCityMatchesOf(str, keywords) ==
    { m \in (1..Len(str)) \X (1..Len(str)) \X (1..Len(str)) :
        /\ m[1] < m[2] /\ m[2] < m[3]
        /\ (m[1] = 1 \/ EndsSegment(str[m[1] - 1]))
        /\ (m[3] = Len(str) \/ EndsSegment(str[m[3]]))
        /\ OneSegment(str, m[1], m[3])
        /\ EndsDeEn(str[m[2]])
        /\ \E k \in m[1]..(m[2] - 1) :
              /\ str[k].k = "w" /\ str[k].s \in keywords
              /\ (k > m[1] \/ m[1] > 1) }

\* src/utils.py:512-557: extract_venue_and_city of TextProcessor, with
\* VENUE_WORDS in the pattern and in the loop.  No location of the model is
\* longer than 80 characters.
TextProcessor_extract_venue_and_city(location) ==
    LET words == { VENUE_WORDS[i] : i \in 1..Len(VENUE_WORDS) }
        ms == VenueCityMatchesOf(location, words)
    IN  IF ms # {}
        THEN LET a == SetMin({ m[1] : m \in ms })
                 j == -SetMin({ -m[2] : m \in { x \in ms : x[1] = a } })
                 b == CHOOSE x \in 1..Len(location) : <<a, j, x>> \in ms
             IN  SubSeq(location, a, j - 1) \o <<LP>>
                   \o RemoveDates(SubSeq(location, j + 1, b - 1) \o <<Unpunct(location[b])>>)
                   \o <<RP>>
        ELSE IF \E i \in 1..Len(location) :
                   location[i].k = "w" /\ location[i].s \in words
        THEN RemoveDates(location)
        ELSE location

\* src/utils.py:559-607
TextProcessor_clean_location(location) ==
    IF location = <<>> THEN <<>>
    ELSE LET fixed == apply_formatting_fixes(location)
         IN  IF IsSpecificLocation(fixed) THEN handle_specific_locations(fixed)
             ELSE TextProcessor_extract_venue_and_city(fixed)

(***************************************************************************)
(* The locations of the runs: up to MaxPieces pieces, one after another.   *)
(***************************************************************************)
MaxPieces == 3

LocationPieces ==
    { <<W("Teatro")>>, <<W("Auditorio")>>, <<W("Centro")>>, <<W("Plaza")>>,
      <<W("NIEMEYER")>>, <<W("Niemeyer")>>,
      <<W("Factoría"), W("Cultural")>>,
      <<W("El"), W("Atrio")>>,
      <<W("La"), W("Florida"), W("con")>>,
      <<W("Cuba")>>,
      <<W("Centro"), W("Social")>>,
      <<W("con"), W("la"), W("banda")>>,
      <<W("de"), W("Avilés")>>,
      <<W("en")>> }

RECURSIVE LocationsOf(_)
LocationsOf(n) ==
    IF n = 0 THEN { <<>> }
    ELSE LocationsOf(n - 1)
           \cup { l \o p : l \in LocationsOf(n - 1), p \in LocationPieces }

Locations == LocationsOf(MaxPieces)

\* clean_location of TextProcessor or _clean_location of EventProcessor on a
\* location
CleanLocation ==
    /\ locp.fn = "none"
    /\ \E location \in Locations :
         \/ locp' = [fn |-> "TextProcessor.clean_location", location |-> location,
                     result |-> TextProcessor_clean_location(location)]
         \/ locp' = [fn |-> "EventProcessor._clean_location", location |-> location,
                     result |-> clean_location(location)]
    /\ UNCHANGED <<now, dateVars, procVars, netVars, run, mainp, llmVars, titlep, otherVars>>

InitLocation == IdleClock /\ DateIdle /\ ProcIdle /\ NetIdle /\ RunIdle /\ LaterIdle
NextLocation == CleanLocation
SpecLocation == InitLocation /\ [][NextLocation]_vars

-----------------------------------------------------------------------------
(***************************************************************************)
(* TelecableScraper, src/scrapers/telecable.py.  The article of a run      *)
(* holds one paragraph: a bold text and the plain text after it.           *)
(***************************************************************************)

\* ":" written right after a word
Colon == [k |-> "rp", n |-> 0, s |-> ":"]

\* re.match(r'^(\d{1,2}\s+de\s+[a-zA-Z]+):\s*(.+)$', title_text)
DatePrefixMatch(title_text) ==
    /\ Len(title_text) >= 5
    /\ IsNum(title_text[1]) /\ TokLen(title_text[1]) <= 2
    /\ IsWord(title_text[2], "de") /\ AsciiWord(title_text[3])
    /\ Spaced(title_text, 1) /\ Spaced(title_text, 2)
    /\ title_text[4] = Colon

\* the tokens i..j where pattern p of date_patterns (src/scrapers/telecable.py:
\* 157-170) matches from token i on, <<>> where it does not.  Patterns 2, 3 and
\* 4 (a range, a day at the start, "Del a al b de mes") match only a text
\* that holds "<day> de <month>", which pattern 1 finds before them.
DatePatternAt(str, i, p) ==
    CASE p = 1 ->
           IF /\ i + 2 <= Len(str) /\ IsNum(str[i]) /\ IsWord(str[i + 1], "de")
              /\ AsciiWord(str[i + 2]) /\ Spaced(str, i) /\ Spaced(str, i + 1)
           THEN IF i + 3 <= Len(str) /\ str[i + 3] = Colon
                THEN SubSeq(str, i, i + 3) ELSE SubSeq(str, i, i + 2)
           ELSE <<>>
      [] p = 5 ->
           IF /\ i + 5 <= Len(str) /\ str[i].k = "w" /\ str[i].s \in {"Durante", "durante"}
              /\ PhraseAt(str, i + 1, <<"todo", "el", "mes", "de">>)
              /\ Spaced(str, i) /\ Spaced(str, i + 4) /\ AsciiWord(str[i + 5])
           THEN SubSeq(str, i, i + 5) ELSE <<>>
      [] p = 6 ->
           IF /\ i + 4 <= Len(str) /\ str[i].k = "w" /\ str[i].s \in {"Todo", "todo"}
              /\ PhraseAt(str, i + 1, <<"el", "mes", "de">>)
              /\ Spaced(str, i) /\ Spaced(str, i + 3) /\ AsciiWord(str[i + 4])
           THEN SubSeq(str, i, i + 4) ELSE <<>>
      [] OTHER -> <<>>

\* re.search(pattern, str).group(0) for pattern p, <<>> when nothing matches
DateSearch(str, p) ==
    LET hits == { i \in 1..Len(str) : DatePatternAt(str, i, p) # <<>> }
    IN  IF hits = {} THEN <<>> ELSE DatePatternAt(str, SetMin(hits), p)

\* src/utils.py:68-72
get_current_month_name == SPANISH_MONTHS_LOWER[now.month + 1]

\* src/scrapers/telecable.py:154-186, called with the title ""
extract_date(details) ==
    LET found == { p \in 1..6 : DateSearch(details, p) # <<>> }
    IN  IF found # {} THEN DateSearch(details, SetMin(found))
        ELSE <<W("Todo"), W("el"), W("mes"), W("de"), W(get_current_month_name)>>

\* (?:en|En)\s+ and (?:en|En)\s+(?:el|la|los|las)?\s+ at token i: with single
\* spaces the second form needs the article
EnAhead(str, i) ==
    i + 1 <= Len(str) /\ str[i].k = "w" /\ str[i].s \in {"en", "En"} /\ Spaced(str, i)
EnArticleAhead(str, i) ==
    /\ EnAhead(str, i) /\ i + 2 <= Len(str)
    /\ str[i + 1].k = "w" /\ str[i + 1].s \in {"el", "la", "los", "las"}
    /\ Spaced(str, i + 1)

\* the first token of group 1 where pattern p of location_patterns
\* (src/scrapers/telecable.py:191-198) matches from token i on, 0 where it
\* does not; the group runs to the end of the text, which holds no "."
LocationPatternAt(str, i, p) ==
    CASE p = 1 ->
           IF /\ EnArticleAhead(str, i) /\ i + 3 <= Len(str)
              /\ str[i + 2].k = "w"
              /\ str[i + 2].s \in { VENUE_WORDS[w] : w \in 1..Len(VENUE_WORDS) }
              /\ Spaced(str, i + 2)
           THEN i + 2 ELSE 0
      [] p = 2 ->
           IF /\ EnAhead(str, i) /\ i + 2 <= Len(str)
              /\ str[i + 1].k = "w"
              /\ str[i + 1].s \in {"Oviedo", "Gijón", "Avilés", "Villaviciosa", "Llanera",
                                   "Cabranes", "Corvera"}
           THEN i + 1 ELSE 0
      [] OTHER ->
           IF EnArticleAhead(str, i) THEN i + 2 ELSE 0

\* re.sub(r'[,\.:;]$', '', location)
StripClosingSign(str) ==
    IF str # <<>> /\ str[Len(str)] \in {Colon, W(":"), W(",")}
    THEN SubSeq(str, 1, Len(str) - 1) ELSE str

\* src/scrapers/telecable.py:188-209
extract_location(details) ==
    LET Hits(p) == { i \in 1..Len(details) : LocationPatternAt(details, i, p) > 0 }
        found == { p \in 1..3 : Hits(p) # {} }
    IN  IF found = {} THEN <<>>
        ELSE StripClosingSign(
                 SubSeq(details, LocationPatternAt(details, SetMin(Hits(SetMin(found))),
                                                   SetMin(found)),
                        Len(details)))

\* src/scrapers/telecable.py:65-100: the events of one bold text of a
\* paragraph whose text is the bold text and `rest`
BoldEvents(bold, rest) ==
    IF bold = <<>> \/ CharLen(bold) < 3 THEN <<>>
    ELSE LET details == bold \o rest
             title == IF DatePrefixMatch(bold) THEN SubSeq(bold, 5, Len(bold)) ELSE bold
             date == IF DatePrefixMatch(bold) THEN SubSeq(bold, 1, 3)
                     ELSE extract_date(details)
         IN  << create_event(StrV(title), StrV(date), StrV(extract_location(details)),
                             "Telecable") >>

\* src/scrapers/telecable.py:24-105: what scrape returns for a page
TelecableEvents(page) ==
    IF page.html = "article" THEN BoldEvents(page.bold, page.rest) ELSE <<>>

(***************************************************************************)
(* The pages of the runs                                                   *)
(***************************************************************************)
BoldTitles ==
    { <<W("Concierto"), W("en"), W("el"), W("Teatro"), W("Jovellanos")>>,
      <<W("Concierto")>>,
      <<W("Festival"), W("en"), W("Oviedo")>>,
      <<W("Festival"), W("en"), W("Gijón"), W("y"), W("Oviedo")>>,
      <<W("Agenda"), W("cultural")>>,
      <<W("Concierto"), W("en"), W("la"), W("Plaza")>> }

BoldTexts ==
    { D_single(d, m) \o <<Colon>> \o t : d \in DaySample, m \in {"mayo", "junio"},
                                         t \in BoldTitles }
      \cup BoldTitles
      \cup { <<>>, <<W("y")>>, D_single(10, "mayo") \o <<Colon>>,
             <<W("Concierto")>> \o D_single(10, "mayo") \o <<Colon>> \o <<W("Oviedo")>> }

RestTexts ==
    { <<>>,
      <<W("En"), W("el"), W("Teatro"), W("Campoamor")>>,
      <<W("Durante"), W("todo"), W("el"), W("mes"), W("de"), W("junio")>> }

Pages ==
    [html : {"article"}, bold : BoldTexts, rest : RestTexts]
      \cup [html : {"none", "no article"}, bold : {<<>>}, rest : {<<>>}]

\* TelecableScraper.scrape on a page
TelecableScrape ==
    /\ telp.pc = "idle"
    /\ \E page \in Pages :
         /\ telp' = [pc |-> "scraped", page |-> page]
         /\ events' = TelecableEvents(page)
    /\ UNCHANGED <<now, dateVars, processed, netVars, run, mainp, llmVars, textVars, logp, regp, outp, turp>>

\* EventProcessor.process_events on the scraped events
TelecableProcess ==
    /\ telp.pc = "scraped"
    /\ telp' = [telp EXCEPT !.pc = "processed"]
    /\ processed' = process_events(events)
    /\ UNCHANGED <<now, dateVars, events, netVars, run, mainp, llmVars, textVars, logp, regp, outp, turp>>

InitTelecable == ProcClockInit /\ DateIdle /\ ProcIdle /\ NetIdle /\ RunIdle /\ LaterIdle
NextTelecable == TelecableScrape \/ TelecableProcess
SpecTelecable == InitTelecable /\ [][NextTelecable]_vars

-----------------------------------------------------------------------------
(***************************************************************************)
(* LogFilter and setup_logging, src/main.py:29-83.  A log record is its    *)
(* level and the marks its message holds; the logger keeps, for every      *)
(* record logged, whether the console handler and the file handler emitted *)
(* it.                                                                     *)
(***************************************************************************)

\* the levels of the logging module
DEBUG == 10
INFO == 20
WARNING == 30
ERROR == 40

\* the substrings LogFilter looks for in a message
P_P_ID == "?p_p_id="
CALENDARS_WEEK == "/-/calendars/week/"
FETCHING_PAGE == "Fetching page"

LogRecord(levelno, msg) == [levelno |-> levelno, msg |-> msg]

\* src/main.py:32-45
LogFilter(record) ==
    IF P_P_ID \in record.msg \/ CALENDARS_WEEK \in record.msg THEN FALSE
    ELSE IF record.levelno = INFO /\ FETCHING_PAGE \in record.msg THEN FALSE
    ELSE TRUE

\* src/main.py:59-60: logger.setLevel
LoggerLevel(l) == IF l.debug THEN DEBUG ELSE INFO

\* a call logger.debug/info/warning/error with the logger of setup_logging
\* (src/main.py:59-80): the record goes to the handlers when its level is
\* enabled; the console handler has the filter unless `verbose`, the file
\* handler has none
Emit(l, record) ==
    LET enabled == record.levelno >= LoggerLevel(l)
    IN  [l EXCEPT !.log = Append(@,
            [record |-> record,
             console |-> enabled /\ (l.verbose \/ LogFilter(record)),
             file |-> enabled])]

\* src/main.py:48-83: the logger set up, and the record of line 82
setup_logging(debug, verbose) ==
    Emit([pc |-> "ready", debug |-> debug, verbose |-> verbose, log |-> <<>>],
         LogRecord(INFO, {}))

\* src/scrapers/base.py:221-234: the marks of simple_url.  A URL of at most
\* 60 characters is logged as it is; a longer one loses its query, and the
\* part of its path after 57 characters when the path is long too.
simple_url(url) ==
    IF ~url.long THEN url.path \cup url.query
    ELSE IF url.cut THEN {} ELSE url.path

\* the URLs fetched: the marks of the path and of the query
FetchedUrls ==
    [long : BOOLEAN, cut : {FALSE}, path : SUBSET {CALENDARS_WEEK}, query : SUBSET {P_P_ID}]
      \cup [long : {TRUE}, cut : {TRUE}, path : {{CALENDARS_WEEK}}, query : SUBSET {P_P_ID}]

\* the most records logged after the one of setup_logging
MaxRecords == 2

LogLevels == {DEBUG, INFO, WARNING, ERROR}
LogMessages == SUBSET {P_P_ID, CALENDARS_WEEK, FETCHING_PAGE}

SetupLogging ==
    /\ logp.pc = "idle"
    /\ \E debug \in BOOLEAN, verbose \in BOOLEAN : logp' = setup_logging(debug, verbose)
    /\ UNCHANGED <<now, dateVars, procVars, netVars, run, mainp, llmVars, textVars, telp, regp, outp, turp>>

\* any call of the logger
Log ==
    /\ logp.pc = "ready" /\ Len(logp.log) <= MaxRecords
    /\ \E levelno \in LogLevels, msg \in LogMessages :
         logp' = Emit(logp, LogRecord(levelno, msg))
    /\ UNCHANGED <<now, dateVars, procVars, netVars, run, mainp, llmVars, textVars, telp, regp, outp, turp>>

\* src/scrapers/base.py:284: fetch_page_with_retry gives up on a URL
LogFailedFetch ==
    /\ logp.pc = "ready" /\ Len(logp.log) <= MaxRecords
    /\ \E url \in FetchedUrls :
         logp' = Emit(logp, LogRecord(ERROR, simple_url(url)))
    /\ UNCHANGED <<now, dateVars, procVars, netVars, run, mainp, llmVars, textVars, telp, regp, outp, turp>>

InitLogging == IdleClock /\ DateIdle /\ ProcIdle /\ NetIdle /\ RunIdle /\ LaterIdle
NextLogging == SetupLogging \/ Log \/ LogFailedFetch
SpecLogging == InitLogging /\ [][NextLogging]_vars

-----------------------------------------------------------------------------
(***************************************************************************)
(* register_scraper, src/scrapers/factory.py:131-173.  The registry is a   *)
(* function from the registered ids to their class name and module path.   *)
(***************************************************************************)

\* registry[scraper_id] = {"class_name": ..., "module_path": ...}
WithEntry(registry, scraper_id, class_name, module_path) ==
    [id \in DOMAIN registry \cup {scraper_id} |->
        IF id = scraper_id THEN [class_name |-> class_name, module_path |-> module_path]
        ELSE registry[id]]

\* del registry[scraper_id]
WithoutEntry(registry, scraper_id) ==
    [id \in DOMAIN registry \ {scraper_id} |-> registry[id]]

(***************************************************************************)
(* What importlib.import_module(module_path) and getattr(module,           *)
(* class_name) do in get_scraper_class is the environment's choice:        *)
(*   "class"          the attribute is there and is truthy                 *)
(*   "falsy"          the attribute is there and is falsy (None, 0)        *)
(*   "ImportError"    the module cannot be imported                        *)
(*   "AttributeError" the module has no such attribute                     *)
(*   "Exception"      the module's code raises another Exception           *)
(*   "BaseException"  the module's code raises SystemExit or               *)
(*                    KeyboardInterrupt, which no handler here catches     *)
(***************************************************************************)
LoadOutcomes == {"class", "falsy", "ImportError", "AttributeError", "Exception", "BaseException"}

\* src/scrapers/factory.py:46-74, for an id that is in the registry: the
\* class, None, or the exception that leaves the function
get_scraper_class(outcome) ==
    CASE outcome \in {"class", "falsy"} -> outcome
      [] outcome \in {"ImportError", "AttributeError"} -> "None"
      [] OTHER -> outcome

\* a registration that keeps the entry of a scraper it could not load
Mut_register_scraper_keeps_entry(registry, scraper_id, class_name, module_path, outcome) ==
    IF scraper_id \in DOMAIN registry THEN [registry |-> registry, result |-> "False"]
    ELSE [registry |-> WithEntry(registry, scraper_id, class_name, module_path),
          result |-> IF get_scraper_class(outcome) = "class" THEN "True"
                     ELSE IF get_scraper_class(outcome) = "BaseException" THEN "raised"
                     ELSE "False"]

\* src/scrapers/factory.py:131-173: the registry after the call and what the
\* call returns ("raised" when an exception leaves it)
register_scraper(registry, scraper_id, class_name, module_path, outcome) ==
    IF scraper_id \in DOMAIN registry THEN [registry |-> registry, result |-> "False"]
    ELSE LET added == WithEntry(registry, scraper_id, class_name, module_path)
             scraper_class == get_scraper_class(outcome)
         IN  CASE scraper_class = "class" -> [registry |-> added, result |-> "True"]
               [] scraper_class \in {"None", "falsy"} ->
                    [registry |-> WithoutEntry(added, scraper_id), result |-> "False"]
               [] scraper_class = "Exception" ->
                    [registry |-> WithoutEntry(added, scraper_id), result |-> "False"]
               [] OTHER -> [registry |-> added, result |-> "raised"]

\* the most calls of register_scraper in a run
MaxRegistrations == 3

RegistrationIds == {"telecable", "extra", "other"}
ClassNames == {"TelecableScraper", "ExtraScraper"}
ModulePaths == {"scrapers.telecable", "scrapers.extra"}

RegisterScraper ==
    /\ regp.calls < MaxRegistrations
    /\ \E scraper_id \in RegistrationIds, class_name \in ClassNames,
          module_path \in ModulePaths, outcome \in LoadOutcomes :
         LET r == register_scraper(regp.registry, scraper_id, class_name, module_path, outcome)
         IN  regp' = [registry |-> r.registry, calls |-> regp.calls + 1,
                      last |-> [scraper_id |-> scraper_id, class_name |-> class_name,
                                module_path |-> module_path, outcome |-> outcome,
                                before |-> regp.registry, result |-> r.result]]
    /\ UNCHANGED <<now, dateVars, procVars, netVars, run, mainp, llmVars, textVars, telp, logp, outp, turp>>

InitRegistry == IdleClock /\ DateIdle /\ ProcIdle /\ NetIdle /\ RunIdle /\ LaterIdle
NextRegistry == RegisterScraper
SpecRegistry == InitRegistry /\ [][NextRegistry]_vars

-----------------------------------------------------------------------------
(***************************************************************************)
(* EventProcessor.format_to_markdown, src/processor.py:260-491, and        *)
(* process_and_save_events, src/main.py:177-213.  The Markdown text is     *)
(* kept as its sequence of "## " sections, each with the entries under it. *)
(***************************************************************************)

\* src/processor.py:339-381: the quotes go, the words are capitalised as in
\* fix_title_capitalization, and ' '.join(title.split()) drops the blanks
EventProcessor_clean_title(title) ==
    fix_title_capitalization(SelectSeq(title, LAMBDA t : t.s \notin {"\"", ""} \/ t.k # "w"))

\* src/processor.py:310-337, for a date string without a time of day ("a las
\* 20:00"): the entry of an event under its heading
prepare_event_for_markdown(event) ==
    [title |-> EventProcessor_clean_title(event.title.str),
     time |-> NoneV,
     location |-> IF Lower(event.location.str) = <<W("asturias")>> THEN <<>>
                  ELSE event.location.str,
     url |-> event.url,
     source_name |-> event.source]

\* "Todo el mes" in date_str or "Durante todo el mes" in date_str, line 291
IsMonthLongGroup(str) ==
    \E i \in 1..Len(str) :
        /\ i + 2 <= Len(str)
        /\ str[i].k = "w" /\ str[i].s \in {"Todo", "todo"}
        /\ i > 1 => (str[i].s = "todo" /\ str[i - 1] = W("Durante"))
        /\ i = 1 => str[i].s = "Todo"
        /\ str[i + 1] = W("el") /\ str[i + 2] = W("mes")

RECURSIVE InsertDateByKey(_, _)
\* the place of date_str in a list of date strings sorted by date_sort_key;
\* sorted() is stable
InsertDateByKey(sorted, date_str) ==
    IF sorted = <<>> THEN <<date_str>>
    ELSE IF KeyLE(date_sort_key(Head(sorted)), date_sort_key(date_str))
         THEN <<Head(sorted)>> \o InsertDateByKey(Tail(sorted), date_str)
         ELSE <<date_str>> \o sorted

RECURSIVE SortDatesByKey(_)
\* sorted(date_groups.keys(), key=date_sort_key), src/processor.py:302-303
SortDatesByKey(dates) ==
    IF dates = <<>> THEN <<>>
    ELSE InsertDateByKey(SortDatesByKey(SubSeq(dates, 1, Len(dates) - 1)), dates[Len(dates)])

RECURSIVE GroupKeys(_, _)
\* the keys of date_groups in the order of their insertion, lines 286-296
GroupKeys(list, keys) ==
    IF list = <<>> THEN keys
    ELSE LET date_str == Head(list).date.str
         IN  IF IsMonthLongGroup(date_str) \/ \E i \in 1..Len(keys) : keys[i] = date_str
             THEN GroupKeys(Tail(list), keys)
             ELSE GroupKeys(Tail(list), Append(keys, date_str))

RECURSIVE MonthLongEntries(_)
\* month_long_events, lines 291-292: the entries of the whole-month events
MonthLongEntries(list) ==
    IF list = <<>> THEN <<>>
    ELSE IF IsMonthLongGroup(Head(list).date.str)
         THEN <<prepare_event_for_markdown(Head(list))>> \o MonthLongEntries(Tail(list))
         ELSE MonthLongEntries(Tail(list))

RECURSIVE DateGroup(_, _)
\* date_groups[date_str], lines 293-296
DateGroup(list, date_str) ==
    IF list = <<>> THEN <<>>
    ELSE IF ~IsMonthLongGroup(Head(list).date.str) /\ Head(list).date.str = date_str
         THEN <<prepare_event_for_markdown(Head(list))>> \o DateGroup(Tail(list), date_str)
         ELSE DateGroup(Tail(list), date_str)

\* _format_event_group(group_title, events), lines 460-491
Section(group_title, entries) == [heading |-> group_title, entries |-> entries]

NoEventsFound == [state |-> "returned", title |-> "# No events found", sections |-> <<>>]

\* src/processor.py:260-308, for events that process_events returned; the
\* call raises AttributeError at line 334 for a location that is no string
format_to_markdown(list) ==
    IF list = <<>> THEN NoEventsFound
    ELSE IF \E i \in 1..Len(list) : list[i].location.ty # "str"
    THEN [state |-> "raised", title |-> "", sections |-> <<>>]
    ELSE LET month_long_events == MonthLongEntries(list)
             sorted_dates == SortDatesByKey(GroupKeys(list, <<>>))
         IN  [state |-> "returned", title |-> "# Eventos en Asturias",
              sections |->
                 (IF month_long_events = <<>> THEN <<>>
                  ELSE <<Section(<<W("Durante"), W("todo"), W("el"), W("mes")>>,
                                 month_long_events)>>)
                 \o [i \in 1..Len(sorted_dates) |->
                        Section(sorted_dates[i], DateGroup(list, sorted_dates[i]))]]

\* a file an earlier run wrote
EarlierFile == [exists |-> TRUE, by |-> "earlier run", markdown |-> <<>>]
OutputFiles == {AbsentFile, EarlierFile}

\* lines 200-213: the Markdown of the events is written to the file
WriteMarkdown(filtered_events, markdown, file, writable) ==
    IF markdown.state = "raised" \/ ~writable
    THEN [state |-> "raised", filtered |-> filtered_events, file |-> file]
    ELSE [state |-> "returned", filtered |-> filtered_events,
          file |-> [exists |-> TRUE, by |-> "this run", markdown |-> markdown.sections]]

\* lines 196-213, with what process_events gave
SaveFiltered(filtered_events, file, writable) ==
    IF filtered_events.state = "raised"
    THEN [state |-> "raised", filtered |-> filtered_events, file |-> file]
    ELSE IF filtered_events.list = <<>>
    THEN [state |-> "returned", filtered |-> filtered_events, file |-> file]
    ELSE WriteMarkdown(filtered_events, format_to_markdown(filtered_events.list),
                       file, writable)

\* a saving that opens the output file before it looks at the events
Mut_process_and_save_events_opens_first(list, file, writable) ==
    SaveFiltered(IF list = <<>> THEN Returned(<<>>) ELSE process_events(list),
                 IF writable THEN [exists |-> TRUE, by |-> "this run", markdown |-> <<>>]
                 ELSE file,
                 writable)

\* src/main.py:177-213: `file` is the output file before the call, and
\* `writable` tells whether open(output_file, 'w') and the write succeed
process_and_save_events(list, file, writable) ==
    IF list = <<>> THEN [state |-> "returned", filtered |-> NotProcessed, file |-> file]
    ELSE SaveFiltered(process_events(list), file, writable)

\* the call process_and_save_events(all_events, args.output_file) of line 240
\* and the end of main
MainProcessAndSave ==
    /\ mainp.pc = "scraping" /\ run.pc = "returned"
    /\ \E batch \in MainBatches, writable \in BOOLEAN :
        \E list \in {IF run.all_events = <<>> THEN <<>> ELSE batch} :
        \E done \in {process_and_save_events(list, outp.file, writable)} :
            /\ events' = list
            /\ processed' = done.filtered
            /\ outp' = [file |-> done.file, call |-> done.state]
            /\ mainp' = AfterProcessAndSave(mainp, Len(run.all_events), done.filtered,
                                           done.state = "returned")
    /\ UNCHANGED <<now, dateVars, netVars, run, llmVars, textVars, telp, logp, regp, turp>>

\* a call process_and_save_events(batch, output_file)
ProcessAndSaveEvents ==
    /\ outp.call = "none"
    /\ \E batch \in Batches, writable \in BOOLEAN :
        \E done \in {process_and_save_events(batch, outp.file, writable)} :
            /\ events' = batch
            /\ processed' = done.filtered
            /\ outp' = [file |-> done.file, call |-> done.state]
    /\ UNCHANGED <<now, dateVars, netVars, run, mainp, llmVars, textVars, telp, logp, regp, turp>>

InitSave ==
    /\ ProcClockInit /\ DateIdle /\ ProcIdle /\ NetIdle /\ RunIdle
    /\ mainp = NoMain /\ urlp = NoUrls /\ llmc = NoCall
    /\ titlep = NoTitle /\ locp = NoLocation
    /\ telp = NoPage /\ logp = NoLogger /\ regp = NoRegistry /\ turp = NoCard
    /\ outp \in [file : OutputFiles, call : {"none"}]
NextSave == ProcessAndSaveEvents
SpecSave == InitSave /\ [][NextSave]_vars

\* the most events in a list that is rendered
MaxRendered == 3

\* the dates of the events that are rendered
RenderedDates ==
    { D_single(20, "mayo"), D_single(3, "junio"), D_spaced(10, 15, "mayo"),
      D_month("mayo"),
      <<W("Todo"), W("el"), W("mes"), W("de"), W("junio")>>,
      <<W("Durante"), W("todo"), W("el"), W("mes"), W("de"), W("mayo")>>,
      <<W("Todo"), W("el"), W("mes")>>,
      <<W("proximamente")>> }

RenderedBatches ==
    UNION { { [i \in 1..n |->
                 [Event(T_concierto, StrV(f[i]), L_teatro, "Telecable") EXCEPT !.url = i]] :
              f \in [1..n -> RenderedDates] } : n \in 1..MaxRendered }

\* a call process_and_save_events(batch, output_file) with a file that can
\* be written
SaveRendered ==
    /\ outp.call = "none"
    /\ \E batch \in RenderedBatches :
        \E done \in {process_and_save_events(batch, outp.file, TRUE)} :
            /\ events' = batch
            /\ processed' = done.filtered
            /\ outp' = [file |-> done.file, call |-> done.state]
    /\ UNCHANGED <<now, dateVars, netVars, run, mainp, llmVars, textVars, telp, logp, regp, turp>>

InitMarkdown == ProcClockInit /\ DateIdle /\ ProcIdle /\ NetIdle /\ RunIdle /\ LaterIdle
NextMarkdown == SaveRendered
SpecMarkdown == InitMarkdown /\ [][NextMarkdown]_vars

InitMain == IdleClock /\ DateIdle /\ ProcIdle /\ NetIdle /\ RunIdle /\ LaterIdle
NextMain == Main \/ MainSetupLogging \/ MainRunScrapers \/ RunNextScraper \/ RunReturn
            \/ MainProcessAndSave
SpecMain == InitMain /\ [][NextMain]_vars

-----------------------------------------------------------------------------
(***************************************************************************)
(* TurismoAsturiasScraper, src/scrapers/turismo_asturias.py: the date of   *)
(* an event card.  The dates of the card are ISO dates, "2025-05-03".      *)
(***************************************************************************)

\* "," written right after a token
Comma == [k |-> "rp", n |-> 0, s |-> ","]

\* src/scrapers/turismo_asturias.py:188-195; "" for a number that is no month
get_spanish_month(month_num) ==
    IF month_num \in 1..12 THEN SPANISH_MONTHS_LOWER[month_num] ELSE ""

\* src/scrapers/turismo_asturias.py:144-186.  A date that does not split
\* into three numbers raises inside the try, and start_date is returned.
format_date(start_date, end_date, time_info) ==
    IF start_date = <<>> THEN <<>>
    ELSE IF ~Hyphened(start_date) THEN start_date
    ELSE LET start_year == start_date[1]
             start_month_num == start_date[3].n
             start_day == LStripZero(start_date[5])
             start_month == get_spanish_month(start_month_num)
             formatted_date == <<start_day, W(start_month), start_year>>
             with_time(str) == IF time_info # <<>> THEN str \o <<Comma>> \o time_info ELSE str
         IN  IF end_date # <<>> /\ end_date # start_date
             THEN IF ~Hyphened(end_date) THEN start_date
                  ELSE LET end_year == end_date[1]
                           end_month_num == end_date[3].n
                           end_day == LStripZero(end_date[5])
                           end_month == get_spanish_month(end_month_num)
                       IN  IF end_year # start_year \/ end_month_num # start_month_num
                           THEN with_time(formatted_date
                                          \o <<W("-"), end_day, W(end_month), end_year>>)
                           ELSE with_time(formatted_date
                                          \o <<W("-"), end_day, W(start_month), start_year>>)
             ELSE with_time(formatted_date)

\* the event of a card, lines 127-135
TurismoEvent(start_date, end_date, time_info) ==
    create_event(T_festival, StrV(format_date(start_date, end_date, time_info)),
                 L_teatro, "Turismo Asturias")

\* the dates of the cards
CardDays == {3, 10, 20}
CardDates ==
    { IsoDate(CurrentYear, m, d) : m \in {4, 5, 6}, d \in CardDays }
    \cup { IsoDate(CurrentYear + 1, 1, 3), <<Num(CurrentYear)>> }

\* _extract_event_from_card for a card with these dates
TurismoScrape ==
    /\ turp.pc = "idle"
    /\ \E start_date \in CardDates \cup {<<>>}, end_date \in CardDates \cup {<<>>},
          time_info \in {<<>>, <<W("20:00")>>} :
        /\ turp' = [pc |-> "scraped", start_date |-> start_date, end_date |-> end_date,
                    time_info |-> time_info]
        /\ events' = <<TurismoEvent(start_date, end_date, time_info)>>
    /\ UNCHANGED <<now, dateVars, processed, netVars, run, mainp, llmVars, textVars,
                   telp, logp, regp, outp>>

\* process_events on what the scraper returned
TurismoProcess ==
    /\ turp.pc = "scraped"
    /\ turp' = [turp EXCEPT !.pc = "processed"]
    /\ processed' = process_events(events)
    /\ UNCHANGED <<now, dateVars, events, netVars, run, mainp, llmVars, textVars,
                   telp, logp, regp, outp>>

TurismoClockInit == now \in [month : {4}, day : {1, 15, 31}, year : {CurrentYear}]
InitTurismo == TurismoClockInit /\ DateIdle /\ ProcIdle /\ NetIdle /\ RunIdle /\ LaterIdle
NextTurismo == TurismoScrape \/ TurismoProcess
SpecTurismo == InitTurismo /\ [][NextTurismo]_vars

-----------------------------------------------------------------------------
(* C1 *)

\* C1: for a date string naming at most one Spanish month, is_future_event
\* returns True when that month is later than the current month, False when
\* it is earlier (whatever day numbers it holds), and in the current month
\* (or with no month named) True for a whole-month phrase, True when no day
\* number can be extracted, and otherwise True exactly when some extracted
\* day number is >= today; in May ("10 de mayo", 15) is False and
\* ("20 de mayo", 15) is True.
C1_IsFutureEventContract ==
    (date_result.fn = "is_future_event" /\ Cardinality(MonthsNamed(date_pattern)) <= 1) =>
        LET named == MonthsNamed(date_pattern)
            days  == extract_days_from_range(date_pattern)
        IN  /\ (\E m \in named : m > now.month) => date_result.future = TRUE
            /\ (\E m \in named : m < now.month) => date_result.future = FALSE
            /\ (named \subseteq {now.month}) =>
                  /\ HasMonthLong(date_pattern) => date_result.future = TRUE
                  /\ days = {} => date_result.future = TRUE
                  /\ (~HasMonthLong(date_pattern) /\ days # {}) =>
                        (date_result.future <=> \E d \in days : d >= current_date)
            /\ (now.month = 4 /\ current_date = 15) =>
                  /\ date_pattern = D_single(10, "mayo") => date_result.future = FALSE
                  /\ date_pattern = D_single(20, "mayo") => date_result.future = TRUE

\* C1 witness: in May, a call with a May range that ended before today returned False
C1_Witness ==
    /\ date_result.fn = "is_future_event"
    /\ now.month = 4 /\ current_date = 15
    /\ date_pattern = D_range(3, 10, "mayo")
    /\ date_result.future = FALSE

-----------------------------------------------------------------------------
(* C2 *)

\* the positions of the batch whose record the loop keeps
KeptPositions == { i \in 1..Len(events) : LoopStep(events[i]) = "keep" }

\* C2: the list process_events returns holds exactly the surviving events, in
\* non-decreasing order of date_sort_key(event.date), and two survivors of
\* equal key stand in the order they had in the input list.
C2_SortedStable ==
    processed.state = "returned" =>
        LET list == processed.list
            key(i) == date_sort_key(list[i].date.str)
        IN  /\ { list[i].url : i \in 1..Len(list) } = KeptPositions
            /\ Len(list) = Cardinality(KeptPositions)
            /\ \A i, j \in 1..Len(list) :
                   i < j => /\ KeyLE(key(i), key(j))
                            /\ key(i) = key(j) => list[i].url < list[j].url

\* two survivors of equal key, and (in another call) two the sort exchanged
C2_Witness ==
    /\ processed.state = "returned" /\ Len(processed.list) = 2
    /\ processed.list[1].url = 2
    /\ date_sort_key(processed.list[1].date.str) # date_sort_key(processed.list[2].date.str)

C2_WitnessTie ==
    /\ processed.state = "returned" /\ Len(processed.list) = 2
    /\ processed.list[1].url = 1
    /\ processed.list[1].date # processed.list[2].date
    /\ date_sort_key(processed.list[1].date.str) = date_sort_key(processed.list[2].date.str)

-----------------------------------------------------------------------------
(* C3 *)

\* C3: no returned event has an empty title or an empty date, and a returned
\* event that create_event built does not have the title ':'; a record
\* create_event built from an empty or ':' title has the title '' and is
\* not returned.
C3_NoEmptyTitleOrDate ==
    /\ processed.state = "returned" =>
           \A i \in 1..Len(processed.list) :
               LET e == processed.list[i]
               IN  /\ e.title.ty = "str" /\ e.title.str # <<>>
                   /\ e.date.ty = "str" /\ e.date.str # <<>>
                   /\ e.built => e.title.str # <<W(":")>>
    /\ \A t \in {StrV(<<>>), StrV(<<W(":")>>), NoneV} :
           create_event(t, StrV(D_single(20, "mayo")), L_none, "Telecable").title = StrV(<<>>)

\* a batch of a record create_event built with no title and a good record:
\* the good one alone is returned
C3_Witness ==
    /\ processed.state = "returned" /\ Len(events) = 2
    /\ events[1].built /\ events[1].title = StrV(<<>>) /\ Truthy(events[1].date)
    /\ Len(processed.list) = 1 /\ processed.list[1].url = 2

-----------------------------------------------------------------------------
(* C4 *)

\* the words of the titles that hold "agenda" in some letter case
AgendaWords == {"agenda", "Agenda", "AGENDA", "aGeNdA", "Agendas", "agendas"}
ContainsAgenda(title) ==
    title.ty = "str" /\ \E i \in 1..Len(title.str) : title.str[i].s \in AgendaWords

\* C4: no event whose title contains 'agenda' in any letter case is in the
\* returned list, whatever its date is.
C4_NoAgenda ==
    processed.state = "returned" =>
        /\ \A i \in 1..Len(processed.list) : ~ContainsAgenda(processed.list[i].title)
        /\ \A i \in 1..Len(events) :
               ContainsAgenda(events[i].title) =>
                   \A j \in 1..Len(processed.list) : processed.list[j].url # i

\* an upper-case agenda title with a date that is_future_event accepts, next
\* to an event that is returned
C4_Witness ==
    /\ processed.state = "returned" /\ Len(events) = 2
    /\ events[1].title = StrV(<<W("AGENDA")>>)
    /\ is_future_event(events[1].date.str, now.day)
    /\ Len(processed.list) = 1 /\ processed.list[1].url = 2

-----------------------------------------------------------------------------
(* C5 *)

\* a record that is a mapping whose title and date are strings
WellFormed(e) == e.isdict /\ e.title.ty = "str" /\ e.date.ty = "str"

\* C5: process_events never raises because of a malformed record: the call
\* returns what it returns for the well-formed records of the batch alone.
C5_MalformedSkipped ==
    processed.state # "none" =>
        /\ processed.state = "returned"
        /\ processed = process_events(SelectSeq(events, WellFormed))

\* the call raised although the batch holds a well-formed future event
C5_RaisedState ==
    /\ processed.state = "raised" /\ Len(events) = 2
    /\ events[1].title = IntV(5)
    /\ WellFormed(events[2]) /\ LoopStep(events[2]) = "keep"

-----------------------------------------------------------------------------
(* C6 *)

RECURSIVE SucceededEvents(_, _)
\* the events of the scrapers 1..n of the run that returned a non-empty list
SucceededEvents(r, n) ==
    IF n = 0 THEN <<>>
    ELSE SucceededEvents(r, n - 1)
         \o (IF r.ran[n].outcome.kind = "list"
             THEN ScrapedEvents(r.scrapers[n], n, r.ran[n].outcome) ELSE <<>>)

\* C6: run_scrapers runs every selected scraper, in selection order; a scraper
\* that raises or returns no events adds nothing and does not stop the ones
\* after it; the returned list is the concatenation, in scraper order, of the
\* events of the scrapers that succeeded.
C6_RunsEveryScraper ==
    run.pc # "idle" =>
        /\ \A j \in 1..Len(run.ran) : run.ran[j].pos = j
        /\ Len(run.ran) = run.i - 1
        /\ run.pc = "returned" => Len(run.ran) = Len(run.scrapers)
        /\ run.all_events = SucceededEvents(run, Len(run.ran))

\* a run of all six scrapers in which the first raised, the second returned
\* nothing and a later one returned events
C6_Witness ==
    /\ run.pc = "returned" /\ Len(run.scrapers) = 6
    /\ run.ran[1].outcome.kind = "raise"
    /\ run.ran[2].outcome = [kind |-> "list", n |-> 0]
    /\ run.ran[3].outcome.n = 2 /\ run.ran[6].outcome.n = 1
    /\ Len(run.all_events) = 3 /\ run.all_events[3].source = "oviedo_announcements"

-----------------------------------------------------------------------------
(* C7 *)

\* C7: fetch_page_with_retry terminates whatever the responses and exceptions
\* are; it issues at most max_retries GET requests (3 with the default
\* configuration); a status-200 response ends it with the body of that
\* response and no further request; in every other case it returns None.
C7_FetchTerminates ==
    /\ [](/\ fetch.requests <= config.max_retries
          /\ config.max_retries = GLOBAL_SETTINGS.max_retries => fetch.requests <= 3
          /\ (fetch.last.kind = "response" /\ fetch.last.status = 200) =>
                 /\ fetch.pc = "done"
                 /\ fetch.result = [ty |-> "text", text |-> fetch.last.text]
          /\ (fetch.pc = "done" /\ ~(fetch.last.kind = "response" /\ fetch.last.status = 200)) =>
                 fetch.result.ty = "none")
    /\ [][fetch.pc = "done" => fetch' = fetch]_vars
    /\ (fetch.pc \in {"get", "sleep"}) ~> (fetch.pc = "done")

\* three requests that all timed out: None after the third
C7_Witness ==
    /\ fetch.pc = "done" /\ config.max_retries = 3 /\ fetch.requests = 3
    /\ fetch.last.kind = "Timeout" /\ fetch.result.ty = "none"

-----------------------------------------------------------------------------
(* C8 *)

Retried(r) ==
    \/ r.kind \in {"Timeout", "ConnectionError"}
    \/ r.kind = "response" /\ (r.status = 429 \/ (500 <= r.status /\ r.status < 600))

ClientError(r) ==
    r.kind = "response" /\ 400 <= r.status /\ r.status < 500 /\ r.status # 429

\* C8: after a 5xx or 429 response, a timeout or a connection error the fetch
\* goes on to another attempt as long as attempts remain; a 4xx response
\* other than 429 ends the fetch with None and no further request.
C8_RetryPolicy ==
    /\ (Retried(fetch.last) /\ fetch.requests < config.max_retries) =>
           \/ fetch.pc = "sleep" /\ fetch.attempt = fetch.requests
           \/ fetch.pc = "get" /\ fetch.attempt = fetch.requests + 1
    /\ ClientError(fetch.last) =>
           /\ fetch.pc = "done" /\ fetch.result.ty = "none"
           /\ fetch.requests = fetch.attempt

\* a second attempt under way after a 429
C8_Witness ==
    /\ fetch.pc = "get" /\ fetch.attempt = 2
    /\ fetch.last.kind = "response" /\ fetch.last.status = 429

-----------------------------------------------------------------------------
(* C9 *)

RECURSIVE PagesEvents(_)
\* the events of the pages fetched, concatenated in page order
PagesEvents(pages) ==
    IF pages = <<>> THEN <<>>
    ELSE PagesEvents(SubSeq(pages, 1, Len(pages) - 1))
         \o [i \in 1..pages[Len(pages)].n |-> [url |-> pages[Len(pages)].url, i |-> i]]

\* C9: process_pagination terminates and fetches at most max_pages pages (3
\* by default), also when every page has a next-page link or the links form
\* a cycle; it returns the events of the fetched pages in page order.
C9_PaginationBounded ==
    /\ [](pag.scraper = "turismo_asturias" =>
            /\ pag.fetches <= config.max_pages
            /\ config.max_pages = GLOBAL_SETTINGS.max_pages => pag.fetches <= 3
            /\ Len(pag.pages) <= pag.fetches
            /\ pag.pc = "returned" => pag.result = PagesEvents(pag.pages))
    /\ (pag.pc = "fetching") ~> (pag.pc = "returned")

\* three pages whose links form a cycle, the last with a link too
C9_Witness ==
    /\ pag.pc = "returned" /\ pag.scraper = "turismo_asturias"
    /\ config.max_pages = 3 /\ Len(pag.pages) = 3
    /\ pag.pages[1].url = "u1" /\ pag.pages[2].url = "u2" /\ pag.pages[3].url = "u1"
    /\ pag.pages[3].next = "u2"
    /\ Len(pag.result) = 6

-----------------------------------------------------------------------------
(* C10 *)

\* C10: when the fetch of page k fails, pagination stops and scrape() returns
\* exactly the events of the pages 1..k-1, the empty list when k = 1.
C10_FailedFetchKeepsEvents ==
    pag.failed > 0 =>
        /\ pag.pc = "returned"
        /\ pag.failed = pag.fetches
        /\ Len(pag.pages) = pag.failed - 1
        /\ pag.result = PagesEvents(pag.pages)
        /\ pag.failed = 1 => pag.result = <<>>

\* the third page of Turismo Asturias failed after two pages of two events
C10_Witness ==
    /\ pag.scraper = "turismo_asturias" /\ pag.failed = 3
    /\ Len(pag.result) = 4 /\ pag.result[1].url = "u1" /\ pag.result[3].url = "u2"

\* the second page of Biodevas failed
C10_WitnessBiodevas ==
    /\ pag.scraper = "biodevas" /\ pag.failed = 2 /\ Len(pag.result) = 2

-----------------------------------------------------------------------------
(* C11 *)

C11_WitnessAllFailed ==
    /\ mainp.pc = "exited" /\ mainp.exit = 0 /\ Len(run.scrapers) = 6
    /\ \A j \in 1..6 : run.ran[j].outcome.kind = "raise"

-----------------------------------------------------------------------------
(* C12 *)

\* C12: for every day d of 1..31 and every month, date_sort_key of
\* "<d> de <month>" is (i, d) with i the 0-based index of the month,
\* whatever the current date is.
C12_SingleDayKey ==
    date_result.fn = "date_sort_key" =>
        \A i \in 0..11, d \in DaysOfMonth :
            date_pattern = D_single(d, SPANISH_MONTHS_LOWER[i + 1]) =>
                date_result.key = <<i, d>>

\* "31 de diciembre" sorted in May
C12_Witness ==
    /\ date_result.fn = "date_sort_key" /\ now.month = 4
    /\ date_pattern = D_single(31, "diciembre")
    /\ date_result.key = <<11, 31>>

-----------------------------------------------------------------------------
(* C13 *)

\* the month a date string names, when it names one: its 0-based index
MonthOf(str) == CHOOSE i \in 0..11 : MonthIn(i, str)

\* C13: a whole-month phrase naming a month has the sort key
\* (month_index, 0), strictly smaller than the key of every specific-day
\* date of that month.
C13_WholeMonthFirst ==
    (date_result.fn = "date_sort_key" /\ date_pattern \in WholeMonthDates) =>
        LET i == MonthOf(date_pattern)
        IN  /\ date_result.key = <<i, 0>>
            /\ \A d \in DaysOfMonth :
                   LET k == date_sort_key(D_single(d, SPANISH_MONTHS_LOWER[i + 1]))
                   IN  KeyLE(date_result.key, k) /\ date_result.key # k
            /\ \A a, b \in DaySample :
                   a < b =>
                       LET k == date_sort_key(D_range(a, b, SPANISH_MONTHS_LOWER[i + 1]))
                       IN  KeyLE(date_result.key, k) /\ date_result.key # k

\* "DURANTE TODO EL MES DE MAYO" sorted in December
C13_Witness ==
    /\ date_result.fn = "date_sort_key" /\ now.month = 11
    /\ date_pattern = <<W("DURANTE"), W("TODO"), W("EL"), W("MES"), W("DE"), W("MAYO")>>
    /\ date_result.key = <<4, 0>>

-----------------------------------------------------------------------------
(* C14 *)

\* the three forms of a range of days a..b of one month that C14 names
RangeForms(a, b, m) == {D_range(a, b, m), D_del_al(a, b, m), D_spaced(a, b, m)}

\* C14: for a < b, the sort key of "a-b de <month>", of "del a al b de
\* <month>" and of the normalized "a - b de <month>" (what format_date_range
\* and clean_date_text return) is (month_index, a).
C14_RangeKeyAsStated ==
    date_result.fn \in {"date_sort_key", "clean_date_text", "format_date_range"} =>
        \A d \in RangeDays, m \in MonthWords :
            date_pattern \in RangeForms(d[1], d[2], m) =>
                date_result.key = <<MonthOf(date_pattern), d[1]>>

\* format_date_range("10", "15", "mayo") returned "10 - 15 de mayo", whose
\* sort key is (4, 15)
C14_SpacedRangeState ==
    /\ date_result.fn = "format_date_range"
    /\ date_result.raw = <<Num(10), Num(15), W("mayo")>>
    /\ date_pattern = D_spaced(10, 15, "mayo")
    /\ date_result.key = <<4, 15>>

\* clean_date_text("Del 10 al 15 de mayo") returned "10 - 15 de mayo", whose
\* sort key is (4, 15)
C14_CleanedRangeState ==
    /\ date_result.fn = "clean_date_text"
    /\ date_result.raw = D_Del_al(10, 15, "mayo")
    /\ date_pattern = D_spaced(10, 15, "mayo")
    /\ date_result.key = <<4, 15>>

\* the two forms that the extractor of days reads as ranges do get the key
\* (month_index, a)
C14_TightRangeKey ==
    date_result.fn = "date_sort_key" =>
        \A d \in RangeDays, m \in MonthWords :
            date_pattern \in {D_range(d[1], d[2], m), D_del_al(d[1], d[2], m)} =>
                date_result.key = <<MonthOf(date_pattern), d[1]>>

-----------------------------------------------------------------------------
(* C15 *)

\* a date that yields neither a day number nor a whole-month phrase
Unparseable(str) == ~HasMonthLong(str) /\ extract_days_from_range(str) = {}

\* the positions of the returned list by the kind of their date
UnparseablePositions ==
    { i \in 1..Len(processed.list) : Unparseable(processed.list[i].date.str) }
ParseablePositions == (1..Len(processed.list)) \ UnparseablePositions

\* C15 as stated: in the list process_events returns, every event with an
\* unparseable date stands after every event with a parseable date, those of
\* later months included.
C15_UnparseableLast ==
    processed.state = "returned" =>
        \A u \in UnparseablePositions, p \in ParseablePositions : p < u

\* C15: in the list process_events returns, an event with an unparseable date
\* stands after every parseable event of its own month (the month its date
\* names, the current month when it names none) and of the months before,
\* and before every parseable event of a later month.
C15_UnparseableLastOfMonth ==
    processed.state = "returned" =>
        LET month(i) == date_sort_key(processed.list[i].date.str)[1]
        IN  \A u \in UnparseablePositions, p \in ParseablePositions :
                /\ month(p) <= month(u) => p < u
                /\ month(p) > month(u) => u < p

\* in May, "proximamente" given after "20 de mayo" or before it: returned
\* after it
C15_Witness ==
    /\ processed.state = "returned" /\ now.month = 4
    /\ Len(processed.list) = 2
    /\ processed.list[1].date.str = D_single(20, "mayo") /\ processed.list[1].url = 2
    /\ processed.list[2].date.str = <<W("proximamente")>>

\* in May, "proximamente" is returned before "3 de junio"
C15_WitnessLaterMonth ==
    /\ processed.state = "returned" /\ now.month = 4
    /\ Len(processed.list) = 2
    /\ processed.list[1].date.str = <<W("proximamente")>> /\ processed.list[1].url = 2
    /\ processed.list[2].date.str = D_single(3, "junio")

-----------------------------------------------------------------------------
(* C16 *)

\* the record of the batch has no location, a title that yields none and a
\* description that yields one
NeedsDescription(e) ==
    /\ e.isdict /\ ~Truthy(e.location)
    /\ e.title.ty = "str" /\ extract_location_from_title(e.title.str) = <<>>
    /\ e.description.ty = "str" /\ extract_location_from_text(e.description.str) # <<>>

\* C16: a surviving event without a location, whose title yields no location
\* and whose description names a venue, leaves process_events with a
\* non-empty location.
C16_DescriptionFallback ==
    processed.state = "returned" =>
        \A i \in 1..Len(processed.list) :
            NeedsDescription(events[processed.list[i].url]) =>
                Truthy(processed.list[i].location)

\* "Festival" with the description "En el Teatro Campoamor" is returned with
\* the empty location it came with
C16_NoFallbackState ==
    /\ processed.state = "returned" /\ Len(processed.list) = 1
    /\ processed.list[1].title = T_festival
    /\ processed.list[1].description = StrV(<<W("En"), W("el"), W("Teatro"), W("Campoamor")>>)
    /\ extract_location_from_text(processed.list[1].description.str)
           = <<W("Teatro"), W("Campoamor")>>
    /\ processed.list[1].location = StrV(<<>>)

-----------------------------------------------------------------------------
(* C17 *)

\* the turn of the loop neither returned nor broke: an exception, a 429 or a
\* 5xx response
TurnFailed(r) ==
    \/ r.kind \in {"Timeout", "ConnectionError", "RequestException", "Exception"}
    \/ r.kind = "response" /\ (r.status = 429 \/ (500 <= r.status /\ r.status < 600))

\* the attempts answered so far, and the waits made so far
Answered == fetch.requests
Waits == Len(fetch.slept)

\* C17: the k-th wait of a fetch lasts retry_delay * 2^(k-1) seconds (2 s,
\* then 4 s with the defaults) and follows the failed attempt k, k <
\* max_retries; a failed attempt k < max_retries is followed by a wait before
\* attempt k + 1; there is no wait after the final attempt and none after a
\* response that is not retried.
C17_ExponentialBackoff ==
    /\ \A k \in 1..Waits : fetch.slept[k] = config.retry_delay * Pow2(k - 1)
    /\ (config.retry_delay = GLOBAL_SETTINGS.retry_delay
            /\ config.max_retries = GLOBAL_SETTINGS.max_retries) =>
           fetch.slept \in {<<>>, <<2>>, <<2, 4>>}
    /\ Waits < config.max_retries \/ Waits = 0
    /\ fetch.pc = "get" => Waits = fetch.attempt - 1 /\ Answered = fetch.attempt - 1
    /\ fetch.pc = "sleep" =>
           /\ Waits = fetch.attempt - 1 /\ Answered = fetch.attempt
           /\ TurnFailed(fetch.last) /\ fetch.attempt < config.max_retries
    /\ (fetch.pc = "done" /\ fetch.attempt > 0) =>
           /\ Waits = fetch.attempt - 1 /\ Answered = fetch.attempt
           /\ ~TurnFailed(fetch.last) \/ fetch.attempt = config.max_retries
    /\ (Answered = fetch.attempt /\ TurnFailed(fetch.last)
            /\ fetch.attempt < config.max_retries) => fetch.pc = "sleep"

\* the waits of a fetch of four attempts with the default delay: 2, 4, 8
C17_Witness ==
    /\ config.retry_delay = 2 /\ config.max_retries = 4
    /\ fetch.pc = "done" /\ fetch.attempt = 4 /\ TurnFailed(fetch.last)
    /\ fetch.slept = <<2, 4, 8>>

\* the default configuration: two failures, waits of 2 s and 4 s, then a 404
\* that ends the fetch without a wait
C17_WitnessNoWait ==
    /\ config.retry_delay = 2 /\ config.max_retries = 3
    /\ fetch.pc = "done" /\ fetch.attempt = 3
    /\ fetch.last.kind = "response" /\ fetch.last.status = 404
    /\ fetch.slept = <<2, 4>>

-----------------------------------------------------------------------------
(* C18 *)

\* the processing of the URL fails: its format is invalid, the request fails
\* or is answered with an HTTP error, or the reply is not JSON
Failing(url, reply) ==
    \/ ~is_valid_url(url)
    \/ reply.kind = "ConnectError"
    \/ reply.kind = "response" /\ reply.status >= 400
    \/ reply.kind = "response" /\ reply.body = "notjson"
    \/ reply.kind = "response" /\ reply.body = "content" /\ reply.content.ty = "invalid"

\* what process_urls returns for the list of this URL alone
Alone(url, reply) == process_url(url, reply).result

\* C18: process_urls returns one ProcessingResult per URL, in the order of
\* the URLs; a URL whose processing fails gets a result with an error
\* message and no events; no exception leaves process_urls; and the result
\* of every URL is the one it gets when it is processed alone.
C18_OneResultPerUrl ==
    /\ urlp.pc # "raised"
    /\ Len(urlp.results) <= Len(urlp.urls)
    /\ urlp.pc = "returned" => Len(urlp.results) = Len(urlp.urls)
    /\ \A i \in 1..Len(urlp.results) :
           /\ urlp.results[i].url = urlp.urls[i]
           /\ urlp.results[i] = Alone(urlp.urls[i], urlp.replies[i])
           /\ Failing(urlp.urls[i], urlp.replies[i]) =>
                  /\ Truthy(urlp.results[i].error)
                  /\ urlp.results[i].events = <<>>

\* a 404 for the first URL, two items of which one is valid for the second
C18_Witness ==
    /\ urlp.pc = "returned" /\ Len(urlp.urls) = 2
    /\ urlp.replies[1] = Reply("response", 404, "", NotJson)
    /\ urlp.results[1].error = StrV(<<W("HTTPStatusError")>>)
    /\ urlp.results[1].events = <<>>
    /\ urlp.results[2].error = NoneV
    /\ urlp.results[2].events = <<[title |-> T_concierto, date |-> D_iso]>>

\* an invalid URL after a URL with events
C18_WitnessInvalid ==
    /\ urlp.pc = "returned" /\ Len(urlp.urls) = 2
    /\ urlp.results[1].error = NoneV /\ urlp.results[1].events # <<>>
    /\ urlp.urls[2] = Url("", "", "agenda")
    /\ urlp.results[2].error = StrV(<<W("Invalid"), W("URL"), W("format")>>)
    /\ urlp.results[2].events = <<>>

-----------------------------------------------------------------------------
(* C19 *)

\* the call got a reply whose content parses as JSON
Parsed == llmc.reply.kind = "response" /\ llmc.reply.status = 200
          /\ llmc.reply.body = "content" /\ llmc.reply.content.ty # "invalid"

\* C19 as stated: at both entry points a reply that parses as JSON and is not
\* a list gives the single-element list holding it, and no reply that parses
\* gives an error.
C19_NonListCoerced ==
    (llmc.fn # "none" /\ Parsed) =>
        /\ llmc.state = "returned"
        /\ llmc.reply.content.ty # "list" => Len(llmc.list) = 1

\* C19: at both entry points a reply that is a JSON object gives the
\* single-element list holding it and a JSON array gives its items; a reply
\* that is another JSON value gives the empty list in _get_llm_response and
\* a ValueError in extract_events; a reply that cannot be parsed gives an
\* error; extract_events with a prompt template that has a replacement field
\* other than html_content, as the default one has, raises KeyError whatever
\* the reply.
C19_ObjectCoerced ==
    LET content == llmc.reply.content
        formatted == llmc.fn = "_get_llm_response" \/ llmc.fields \subseteq {"html_content"}
    IN  /\ (llmc.fn # "none" /\ Parsed /\ formatted) =>
               /\ content.ty = "dict" =>
                      llmc.state = "returned" /\ llmc.list = <<content.items[1]>>
               /\ content.ty = "list" =>
                      llmc.state = "returned" /\ llmc.list = content.items
               /\ (content.ty \notin {"dict", "list"} /\ llmc.fn = "_get_llm_response") =>
                      llmc.state = "returned" /\ llmc.list = <<>>
               /\ (content.ty \notin {"dict", "list"} /\ llmc.fn = "extract_events") =>
                      llmc.state = "raised" /\ llmc.error = "ValueError"
        /\ (llmc.fn # "none" /\ ~Parsed) => llmc.state = "raised"
        /\ (llmc.fn = "extract_events" /\ ~formatted) =>
               llmc.state = "raised" /\ llmc.error = "KeyError"

\* _get_llm_response got a JSON object and returned the list of it
C19_Witness ==
    /\ llmc.fn = "_get_llm_response" /\ llmc.state = "returned"
    /\ llmc.reply = Answer(JDict(Obj(T_concierto, D_short)))
    /\ llmc.list = <<Obj(T_concierto, D_short)>>

\* extract_events got the JSON object with a template of html_content
C19_WitnessExtract ==
    /\ llmc.fn = "extract_events" /\ llmc.state = "returned"
    /\ llmc.fields = {"html_content"}
    /\ llmc.reply = Answer(JDict(Obj(T_concierto, D_short)))
    /\ llmc.list = <<Obj(T_concierto, D_short)>>

\* the reply 42: the empty list from _get_llm_response
C19_WitnessScalar ==
    /\ llmc.fn = "_get_llm_response" /\ llmc.reply = Answer(JScalar("int"))
    /\ llmc.state = "returned" /\ llmc.list = <<>>

\* the reply 42: a ValueError from extract_events
C19_WitnessScalarRaised ==
    /\ llmc.fn = "extract_events" /\ llmc.reply = Answer(JScalar("int"))
    /\ llmc.fields = {"html_content"}
    /\ llmc.state = "raised" /\ llmc.error = "ValueError"

\* extract_events with the default prompt template got a JSON object and
\* raised KeyError
C19_DefaultTemplateState ==
    /\ llmc.fn = "extract_events" /\ llmc.fields = DEFAULT_PROMPT_TEMPLATE
    /\ llmc.reply = Answer(JDict(Obj(T_concierto, D_short)))
    /\ llmc.state = "raised" /\ llmc.error = "KeyError"

-----------------------------------------------------------------------------
(* C20 *)

\* C20: clean_title is idempotent: for every title, with fix_capitalization
\* off and with it on, cleaning the cleaned title again gives the cleaned
\* title.
C20_Idempotent ==
    titlep.fn = "clean_title" => titlep.twice = titlep.once

\* "10 de mayo 10 de mayo Concierto" with fix_capitalization off: the first
\* call removes one date and returns "10 de mayo Concierto", the second call
\* removes the other and returns "Concierto"
C20_SecondDateState ==
    /\ titlep.fn = "clean_title"
    /\ titlep.title = D_single(10, "mayo") \o D_single(10, "mayo") \o <<W("Concierto")>>
    /\ titlep.date_pattern = <<>> /\ ~titlep.fix_capitalization
    /\ titlep.once = D_single(10, "mayo") \o <<W("Concierto")>>
    /\ titlep.twice = <<W("Concierto")>>

\* "Ver evento Ver evento Concierto" with fix_capitalization on: "Ver evento
\* Concierto" after one call, "Concierto" after two
C20_SecondVerEventoState ==
    /\ titlep.fn = "clean_title"
    /\ titlep.title = <<W("Ver"), W("evento"), W("Ver"), W("evento"), W("Concierto")>>
    /\ titlep.date_pattern = <<>> /\ titlep.fix_capitalization
    /\ titlep.once = <<W("Ver"), W("evento"), W("Concierto")>>
    /\ titlep.twice = <<W("Concierto")>>

-----------------------------------------------------------------------------
(* C21 *)

Niemeyer == <<W("Centro"), W("Niemeyer,"), W("Avilés")>>

\* the location holds one of the generic venue keywords
HasVenueKeyword(location) ==
    \E i \in 1..Len(location) :
        location[i].k = "w" /\ location[i].s \in VENUE_KEYWORDS \cup VENUE_KEYWORDS_LOOP

\* "NIEMEYER" stands in the location before any "con la banda" or "para
\* presentar", from which the formatting fixes cut the text off
NiemeyerKept(location) ==
    \E i \in 1..Len(location) :
        /\ PhraseAt(location, i, <<"NIEMEYER">>)
        /\ \A j \in 1..(i - 1) :
              /\ ~PhraseAt(location, j, <<"con", "la", "banda">>)
              /\ ~PhraseAt(location, j, <<"para", "presentar">>)

\* the location holds a key that stands before "NIEMEYER" in the table
HasEarlierKey(location) ==
    \/ HasPhrase(location, <<"El", "Atrio">>)
    \/ HasPhrase(location, <<"La", "Florida", "con">>)
    \/ HasPhrase(location, <<"Factoría", "Cultural">>)

C21_WitnessProcessor ==
    /\ locp.fn = "EventProcessor._clean_location"
    /\ locp.location = <<W("Auditorio"), W("Teatro"), W("NIEMEYER")>>
    /\ locp.result = Niemeyer

\* "NIEMEYER Factoría Cultural": the earlier key of the table answers
C21_EarlierKeyState ==
    /\ locp.fn = "TextProcessor.clean_location"
    /\ locp.location = <<W("NIEMEYER"), W("Factoría"), W("Cultural")>>
    /\ locp.result = <<W("Factoría"), W("Cultural,"), W("Avilés")>>

-----------------------------------------------------------------------------
(* C22 *)

\* the paragraph <p class="western"><b>10 de mayo: Concierto en el Teatro
\* Jovellanos</b></p>
ScenarioPage ==
    [html |-> "article",
     bold |-> D_single(10, "mayo") \o <<Colon>> \o T_venue.str,
     rest |-> <<>>]

\* the run has scraped the scenario's page and processed its events, on a day
\* on which 10 de mayo is not past
ScenarioDone ==
    /\ telp.pc = "processed" /\ telp.page = ScenarioPage
    /\ now.month = 4 /\ now.day <= 10

\* C22: the scenario's paragraph yields, after scraping and process_events,
\* one event with title exactly "Concierto", a date containing "10 de mayo"
\* and a location containing "Teatro Jovellanos".
C22_EndToEnd ==
    ScenarioDone =>
        /\ processed.state = "returned" /\ Len(processed.list) = 1
        /\ processed.list[1].title = T_concierto
        /\ HasPhrase(processed.list[1].date.str, <<"de", "mayo">>)
        /\ \E i \in 1..Len(processed.list[1].date.str) :
              processed.list[1].date.str[i] = Num(10)
        /\ HasPhrase(processed.list[1].location.str, <<"Teatro", "Jovellanos">>)

\* the scenario's event as the run returns it: the date and the location are
\* as stated, the title is "Concierto en el Teatro Jovellanos"
C22_TitleKeepsVenueState ==
    /\ ScenarioDone
    /\ processed.state = "returned" /\ Len(processed.list) = 1
    /\ processed.list[1].title = T_venue
    /\ processed.list[1].date = StrV(D_single(10, "mayo"))
    /\ processed.list[1].location = StrV(<<W("Teatro"), W("Jovellanos")>>)

-----------------------------------------------------------------------------
(* C23 *)

\* the console handler has the LogFilter
NonVerbose == logp.pc = "ready" /\ ~logp.verbose

\* C23: in non-verbose mode the console never loses a WARNING or ERROR
\* record, whatever its message holds: each one the logger handles is
\* emitted on the console.
C23_WarningsReachConsole ==
    NonVerbose =>
        \A i \in 1..Len(logp.log) :
            (logp.log[i].record.levelno \in {WARNING, ERROR} /\ logp.log[i].file)
                => logp.log[i].console

\* the ERROR record of a failed fetch of a short URL under /-/calendars/week/
\* is written to the file and not shown on the console
C23_ErrorDroppedState ==
    /\ NonVerbose
    /\ \E i \in 1..Len(logp.log) :
          /\ logp.log[i].record = LogRecord(ERROR, {CALENDARS_WEEK})
          /\ logp.log[i].file /\ ~logp.log[i].console

\* what the filter keeps from the console: the records that hold a
\* pagination URL, of any level, and the INFO records "Fetching page"
C23_DroppedRecords ==
    NonVerbose =>
        \A i \in 1..Len(logp.log) :
            (logp.log[i].file /\ ~logp.log[i].console)
                <=> /\ logp.log[i].record.levelno >= LoggerLevel(logp)
                    /\ \/ P_P_ID \in logp.log[i].record.msg
                       \/ CALENDARS_WEEK \in logp.log[i].record.msg
                       \/ /\ logp.log[i].record.levelno = INFO
                          /\ FETCHING_PAGE \in logp.log[i].record.msg

-----------------------------------------------------------------------------
(* C24 *)

\* a call of register_scraper has returned
RegistrationReturned == regp.last.result \in {"True", "False"}

\* C24: a call of register_scraper returns True only if the id was not
\* registered before and its class could be loaded, and then the registry has
\* gained exactly that entry; when it returns False the registry is what it
\* was before the call; no call changes or removes an entry that was there.
C24_RegistryConsistent ==
    /\ regp.last.result = "True" =>
          /\ regp.last.scraper_id \notin DOMAIN regp.last.before
          /\ regp.last.outcome = "class"
          /\ regp.registry = WithEntry(regp.last.before, regp.last.scraper_id,
                                       regp.last.class_name, regp.last.module_path)
    /\ regp.last.result = "False" => regp.registry = regp.last.before
    /\ RegistrationReturned =>
          \A id \in DOMAIN regp.last.before :
              id \in DOMAIN regp.registry /\ regp.registry[id] = regp.last.before[id]
    /\ DOMAIN SCRAPER_REGISTRY \subseteq DOMAIN regp.registry

\* a registration of "extra" has succeeded, and a later call with the same
\* id and another class has returned False
C24_Witness ==
    /\ regp.last.result = "False" /\ regp.last.scraper_id = "extra"
    /\ regp.last.class_name = "ExtraScraper"
    /\ "extra" \in DOMAIN regp.registry
    /\ regp.registry["extra"].class_name = "TelecableScraper"

\* a registration whose module could not be imported has returned False
C24_WitnessFailedLoad ==
    /\ regp.last.result = "False" /\ regp.last.outcome = "ImportError"
    /\ regp.last.scraper_id \notin DOMAIN regp.last.before
    /\ regp.last.scraper_id \notin DOMAIN regp.registry

\* a call that SystemExit or KeyboardInterrupt leaves returns nothing; the
\* entry it added stays in the registry
C24_InterruptedState ==
    /\ regp.last.result = "raised"
    /\ regp.last.scraper_id \notin DOMAIN regp.last.before
    /\ regp.last.scraper_id \in DOMAIN regp.registry

-----------------------------------------------------------------------------
(* C25 *)

\* extract_events, or extract_events_from_source, ran with the default
\* prompt template on HTML content that is not empty
DefaultTemplateCall ==
    /\ llmc.fn \in {"extract_events", "extract_events_from_source"}
    /\ llmc.fields = DEFAULT_PROMPT_TEMPLATE
    /\ llmc.html # ""

\* C25: a call of extract_events with the default prompt template and HTML
\* content that is not empty has, when it returns or raises, sent exactly one
\* POST to {api_base_url}/chat/completions whose user message embeds that
\* HTML; extract_events_from_source with default arguments does so for every
\* source that yields HTML.
C25_OneRequestSent ==
    DefaultTemplateCall =>
        llmc.posts = <<ChatRequest(LLM_API_BASE_URL, <<llmc.html>>)>>

\* extract_events ran with the default template on a page while the server
\* was ready to answer with a list of events: a KeyError, and nothing sent
C25_NothingSentState ==
    /\ llmc.fn = "extract_events" /\ llmc.fields = DEFAULT_PROMPT_TEMPLATE
    /\ llmc.html = "<li>Concierto</li>"
    /\ llmc.reply = Answer(JList(<<Obj(T_concierto, D_iso)>>))
    /\ llmc.state = "raised" /\ llmc.error = "KeyError"
    /\ llmc.posts = <<>>

\* with a template whose one replacement field is html_content the request
\* is sent once and embeds the HTML
C25_HtmlContentTemplate ==
    (/\ llmc.fn \in {"extract_events", "extract_events_from_source"}
     /\ llmc.fields = {"html_content"} /\ llmc.html # "") =>
        llmc.posts = <<ChatRequest(LLM_API_BASE_URL, <<llmc.html>>)>>

-----------------------------------------------------------------------------
(* C26 *)

\* process_and_save_events was called, and events is the list it was given
SaveCalled == outp.call # "none"

\* at least one event came out of process_events
SomeSurvived == processed.state = "returned" /\ processed.list # <<>>

\* the call wrote the output file
FileWritten == outp.file.by = "this run"

C26_WitnessWritten ==
    /\ SaveCalled /\ SomeSurvived /\ FileWritten
    /\ Len(outp.file.markdown) >= 1

\* the file is never written by the run of main() that found no event
C26_MainLeavesFile ==
    (mainp.pc = "exited" /\ mainp.saved = -1) => outp.file = AbsentFile

-----------------------------------------------------------------------------
(* C27 *)

\* is_future_event was called with a range "<a> de <m1> - <b> de <m2>" that
\* starts in a month before the current one and ends in the current month on
\* or after the day passed as today
RangeEndsThisMonth ==
    /\ date_result.fn = "is_future_event"
    /\ \E a \in DaysOfMonth, b \in DaysOfMonth, m1 \in 0..11 :
          /\ m1 < now.month
          /\ date_pattern = D_cross(a, SPANISH_MONTHS_LOWER[m1 + 1],
                                    b, SPANISH_MONTHS_LOWER[now.month + 1])
          /\ b >= current_date

\* C27: a range that starts in a past month and ends in the current month on
\* or after today is classified as future by is_future_event, and an event
\* with that date is kept by process_events.
C27_CrossMonthRangeKept ==
    RangeEndsThisMonth =>
        /\ date_result.future
        /\ current_date = now.day =>
              Len(process_events(<<Event(T_concierto, StrV(date_pattern), L_teatro,
                                         "Avilés")>>).list) = 1

\* '28 de abril - 3 de mayo' on 1 May: not future, and process_events
\* returns nothing for the event
C27_CrossMonthDroppedState ==
    /\ now.month = 4 /\ now.day = 1 /\ current_date = 1
    /\ date_result.fn = "is_future_event"
    /\ date_pattern = D_cross(28, "abril", 3, "mayo")
    /\ ~date_result.future
    /\ process_events(<<Event(T_concierto, StrV(date_pattern), L_teatro, "Avilés")>>)
         = Returned(<<>>)

\* what the code does with two month names: the month that comes first in
\* the calendar decides, whatever the days
C27_FirstMonthDecides ==
    (date_result.fn = "is_future_event" /\ MonthsNamed(date_pattern) # {}
     /\ SetMin(MonthsNamed(date_pattern)) # now.month) =>
        (date_result.future <=> SetMin(MonthsNamed(date_pattern)) > now.month)

-----------------------------------------------------------------------------
(* C28 *)

\* process_events has run on the event of a card whose start and end are
\* dates of the current month and year
CardThisMonth ==
    /\ turp.pc = "processed"
    /\ Hyphened(turp.start_date) /\ Hyphened(turp.end_date)
    /\ \A date \in {turp.start_date, turp.end_date} :
          date[1].n = now.year /\ date[3].n = now.month + 1

\* C28: a Turismo event whose start and end day lie in the current month
\* before today is removed by process_events, and the day of the sort key of
\* a Turismo event is its start day.
C28_TurismoDatesUnderstood ==
    CardThisMonth =>
        /\ (turp.start_date[5].n < now.day /\ turp.end_date[5].n < now.day) =>
              processed = Returned(<<>>)
        /\ date_sort_key(events[1].date.str)[2] = turp.start_date[5].n

\* the card from 3 May to 10 May, after process_events on 15 May: the event
\* is kept, and the day of its sort key is 100
C28_PastEventKeptState ==
    /\ CardThisMonth /\ now.day = 15
    /\ turp.start_date = IsoDate(CurrentYear, 5, 3)
    /\ turp.end_date = IsoDate(CurrentYear, 5, 10)
    /\ turp.time_info = <<>>
    /\ events[1].date.str = <<Num(3), W("mayo"), W("-"), Num(10), W("mayo")>>
    /\ processed.state = "returned" /\ Len(processed.list) = 1
    /\ date_sort_key(events[1].date.str) = <<4, 100>>

\* no day is read from the date of any card: the date has no "de"
C28_NoDayRead ==
    turp.pc # "idle" => extract_days_from_range(events[1].date.str) = {}

-----------------------------------------------------------------------------
(* C29 *)

\* the Markdown of the events that process_events returned was written
Rendered == outp.call = "returned" /\ outp.file.by = "this run"

RECURSIVE RenderedUrls(_)
\* the url of the entries of the sections, from the top of the text down
RenderedUrls(sections) ==
    IF sections = <<>> THEN <<>>
    ELSE [i \in 1..Len(Head(sections).entries) |-> Head(sections).entries[i].url]
         \o RenderedUrls(Tail(sections))

\* the month of the event of the batch with this url
RenderedMonth(url) == date_sort_key(events[url].date.str)[1]

\* each event that process_events returned has exactly one entry
RenderedOnce ==
    LET urls == RenderedUrls(outp.file.markdown)
    IN  /\ Len(urls) = Len(processed.list)
        /\ \A i \in 1..Len(processed.list) :
              Cardinality({ p \in 1..Len(urls) : urls[p] = processed.list[i].url }) = 1

\* the headings are in non-decreasing order of their date_sort_key
SectionsSorted ==
    LET sections == outp.file.markdown
    IN  \A i, j \in 1..Len(sections) :
            i < j => KeyLE(date_sort_key(sections[i].heading),
                           date_sort_key(sections[j].heading))

\* C29: format_to_markdown renders the date sections in non-decreasing
\* date_sort_key order; no event of a later month (whole-month events
\* included) is rendered above an event of an earlier month; each input
\* event is rendered exactly once.
C29_RenderedInDateOrder ==
    Rendered =>
        /\ SectionsSorted
        /\ RenderedOnce
        /\ LET urls == RenderedUrls(outp.file.markdown)
           IN  \A p, q \in 1..Len(urls) : p < q => RenderedMonth(urls[p]) <= RenderedMonth(urls[q])

\* "20 de mayo" and "Todo el mes de junio" in one list: the event of June is
\* under "Durante todo el mes", above the section of 20 May
C29_LaterMonthFirstState ==
    /\ Rendered
    /\ Len(events) = 2
    /\ events[1].date.str = D_single(20, "mayo")
    /\ events[2].date.str = <<W("Todo"), W("el"), W("mes"), W("de"), W("junio")>>
    /\ Len(outp.file.markdown) = 2
    /\ outp.file.markdown[1].heading = <<W("Durante"), W("todo"), W("el"), W("mes")>>
    /\ outp.file.markdown[1].entries[1].url = 2
    /\ outp.file.markdown[2].heading = D_single(20, "mayo")

\* what holds of every rendering: sorted headings, every event once, and
\* months in order among the sections below "Durante todo el mes"
C29_DateSectionsInOrder ==
    Rendered =>
        /\ SectionsSorted
        /\ RenderedOnce
        /\ LET dated == SelectSeq(outp.file.markdown,
                                  LAMBDA s : s.heading # <<W("Durante"), W("todo"), W("el"), W("mes")>>)
               urls == RenderedUrls(dated)
           IN  \A p, q \in 1..Len(urls) : p < q => RenderedMonth(urls[p]) <= RenderedMonth(urls[q])

-----------------------------------------------------------------------------
(* C30 *)

\* C30: processed_at of every ProcessingResult is the time at which the
\* result was created; the timestamps of successive process_url calls are
\* non-decreasing, and none is earlier than the start of the process_urls
\* call.
C30_ProcessedAtCreation ==
    \A i \in 1..Len(urlp.results) :
        /\ urlp.results[i].processed_at = urlp.created[i]
        /\ urlp.results[i].processed_at >= urlp.started_at
        /\ \A j \in 1..Len(urlp.results) :
              i < j => urlp.results[i].processed_at <= urlp.results[j].processed_at

\* process_urls began one tick after the import and returned two results,
\* created at ticks 1 and 2: both carry the time of the import
C30_ImportTimeState ==
    /\ urlp.pc = "returned" /\ Len(urlp.results) = 2
    /\ urlp.started_at = 1 /\ urlp.created = <<1, 2>>
    /\ urlp.results[1].processed_at = 0 /\ urlp.results[2].processed_at = 0

\* every result carries the time of the import, whenever it was created
C30_AllImportTime ==
    /\ Len(urlp.created) = Len(urlp.results)
    /\ \A i \in 1..Len(urlp.results) :
          /\ urlp.results[i].processed_at = IMPORTED_AT
          /\ urlp.created[i] >= urlp.started_at
          /\ i > 1 => urlp.created[i - 1] <= urlp.created[i]

=============================================================================
